---- MODULE Spec2Model ----
(***************************************************************************)
(* Model of stock_service.py: the rate limiter, the time-bounded cache,    *)
(* the price subscription registry with its websocket handlers, and the    *)
(* background price update worker with its broadcast.                      *)
(***************************************************************************)
EXTENDS Integers, Sequences, FiniteSets, TLC

VARIABLES
    connected,              \* sids of the clients the socket server holds a connection to
    price_subscribers,      \* {symbol: set(session_ids)}
    price_update_running,   \* the global flag of the worker loop
    wpc,                    \* price_update_thread: "none", or where the worker is
    wsymbols,               \* the worker's snapshot: symbols still to fetch this cycle
    wsnapshot,              \* symbols = list(price_subscribers.keys()) of the cycle
    orphans,                \* worker threads alive that price_update_thread has lost
    updated_prices,         \* the worker's batch of this cycle
    rate_limit_storage,     \* limit_type -> identifier -> list of timestamps
    now,                    \* the clock read by time.time() / datetime.now()
    ticks,                  \* how often the clock has advanced
    cache,                  \* key -> <<data, timestamp>>
    emitted,                \* the events emitted by the latest handler / broadcast
    last,                   \* the operation the latest step executed
    response,               \* the return value of the latest decorated handler
    route,                  \* the route the traffic of a rate limiter run goes to
    got,                    \* the latest get_cached_data: key and result
    lastSet,                \* per key: the latest set_cached_data (data, time)
    burst,                  \* rate limiter run: start and length of the current burst
    tpc, tnow, tfiltered,   \* concurrent requests inside decorated_function
    db,                     \* whether initialize_firebase() gave a client
    holdings,               \* portfolios: <<userId, symbol>> -> holding
    txlog,                  \* stockTransactions: the recorded transactions
    watchlists,             \* watchlists: userId -> symbols
    quoted,                 \* the symbols the latest step asked the quote source for
    prior,                  \* the holdings before the latest step
    tref                    \* per thread: the set it loaded is still the registry's

vars == <<connected, price_subscribers, price_update_running, wpc, wsymbols, wsnapshot, orphans,
          updated_prices, rate_limit_storage, now, ticks, cache, emitted,
          last, response, route, got, lastSet, burst, tpc, tnow, tfiltered,
          db, holdings, txlog, watchlists, quoted, prior, tref>>

(***************************************************************************)
(* Bounds of the model.                                                    *)
(***************************************************************************)
MaxCacheTicks == 3      \* clock advances in a run of the cache
MaxRLTicks == 2         \* clock advances in a run of the rate limiter
MaxConcTicks == 1       \* clock advances in a run of concurrent requests
MaxTransactions == 3    \* transactions the log of a run records
MaxServed == 121        \* requests of a run whose handler body is executed
MaxFreshServed == 3     \* requests of a run of the cached routes over time
MaxStartEvents == 4     \* subscribe_prices events of a run of concurrent starts

Conns == {"c1", "c2"}
None == "None"
EmptyMap == [s \in {} |-> {}]

(***************************************************************************)
(* Python values of the event payloads.  A string is the sequence of its   *)
(* characters; ints and lists stand for the non-string elements.           *)
(***************************************************************************)
Str(cs) == [t |-> "str", v |-> cs]
ListVal == [t |-> "list", v |-> <<>>]          \* an unhashable element

AAPL == Str(<<"A", "A", "P", "L">>)
MSFT == Str(<<"M", "S", "F", "T">>)
DJI == Str(<<"^", "D", "J", "I">>)
aapl == Str(<<"a", "a", "p", "l">>)
AAPL_NL == Str(<<"A", "A", "P", "L", "\n">>)

UpperCase == {"A", "B", "C", "D", "E", "F", "G", "H", "I", "J", "K", "L", "M",
              "N", "O", "P", "Q", "R", "S", "T", "U", "V", "W", "X", "Y", "Z"}

\* The character class [A-Z^] of the symbol pattern.
SymbolChar(ch) == ch \in UpperCase \cup {"^"}

\* The symbol grammar: 1 to 10 characters, each of [A-Z^].
InGrammar(e) ==
    /\ e.t = "str"
    /\ Len(e.v) \in 1..10
    /\ \A i \in 1..Len(e.v) : SymbolChar(e.v[i])

\* isinstance(s, str) and symbol_pattern.match(s), for r'^[A-Z^]{1,10}$':
\* re.match anchors the start, and $ matches at the end of the string and
\* also just before a newline that ends the string.
SymbolPatternMatch(e) ==
    /\ e.t = "str"
    /\ LET len == Len(e.v)
           body == IF len > 1 /\ e.v[len] = "\n" THEN len - 1 ELSE len
       IN  /\ body \in 1..10
           /\ \A i \in 1..body : SymbolChar(e.v[i])

\* Shapes of the payloads of subscribe_prices / unsubscribe_prices events.
Dict(st, items) == [t |-> "dict", empty |-> FALSE, has |-> TRUE, st |-> st, items |-> items]
NoDict == [t |-> "str", empty |-> FALSE, has |-> FALSE, st |-> "list", items |-> <<>>]
EmptyDict == [t |-> "dict", empty |-> TRUE, has |-> FALSE, st |-> "list", items |-> <<>>]
NoSymbolsKey == [t |-> "dict", empty |-> FALSE, has |-> FALSE, st |-> "list", items |-> <<>>]

Repeat(pair, n) == [i \in 1..n |-> pair[1 + (i % 2)]]

\* The payloads of the events: subscribe_prices gets the lists at the limit
\* of 20 symbols too.
UnsubscribePayloads ==
    {NoDict, NoSymbolsKey, Dict("str", <<>>)}
        \cup {Dict("list", l) : l \in {<<AAPL>>, <<MSFT, AAPL>>, <<AAPL_NL>>,
                                       <<AAPL, ListVal, MSFT>>}}

SubscribePayloads ==
    {NoDict, EmptyDict, Dict("str", <<>>)}
        \cup {Dict("list", l) : l \in {<<AAPL>>, <<MSFT, AAPL>>, <<AAPL_NL>>,
                                       <<DJI, aapl>>,
                                       Repeat(<<AAPL, MSFT>>, 20),
                                       Repeat(<<AAPL, MSFT>>, 21)}}

Payloads == SubscribePayloads \cup UnsubscribePayloads

\* data.get('symbols', [])
GetSymbols(data) ==
    IF data.has THEN [st |-> data.st, items |-> data.items]
    ELSE [st |-> "list", items |-> <<>>]

\* not data or not isinstance(data, dict)
BadData(data) == data.t # "dict" \/ data.empty

(***************************************************************************)
(* Groups of variables.                                                    *)
(***************************************************************************)
workerVars == <<wpc, wsymbols, wsnapshot, updated_prices, orphans>>
cacheVars == <<cache, got, lastSet>>
threadVars == <<tpc, tnow, tfiltered, tref>>
clockVars == <<now, ticks>>
storeVars == <<db, holdings, txlog, watchlists>>

(***************************************************************************)
(* Rate limiting (rate_limit, lines 37-80).                                *)
(***************************************************************************)
RATE_LIMITS ==
    [default |-> [requests |-> 60, window |-> 60],
     authenticated |-> [requests |-> 120, window |-> 60],
     websocket |-> [requests |-> 10, window |-> 10]]

LimitTypes == DOMAIN RATE_LIMITS

\* RATE_LIMITS.get(limit_type, RATE_LIMITS['default'])
Config(limit_type) ==
    IF limit_type \in DOMAIN RATE_LIMITS THEN RATE_LIMITS[limit_type]
    ELSE RATE_LIMITS["default"]

\* The request contexts: the address of the peer and the user id that
\* get_user_from_request() verifies from the Authorization header.
Requests == {[remote_addr |-> "10.0.0.1", user_id |-> None],
             [remote_addr |-> "10.0.0.1", user_id |-> "u1"]}

\* The handshake request of each connection: both anonymous, same address.
ConnRequest(c) == [remote_addr |-> "10.0.0.1", user_id |-> None]

\* identifier = user_id if user_id else client_ip
Identifier(req) == IF req.user_id # None THEN req.user_id ELSE req.remote_addr

Identifiers == {Identifier(r) : r \in Requests}

\* A cleaning that keeps the requests that are exactly a window old.
CleanOldInclusive(stamps, t, window_seconds) ==
    SelectSeq(stamps, LAMBDA timestamp : t - timestamp <= window_seconds)

\* [timestamp for timestamp in ... if now - timestamp < window_seconds]
CleanOld(stamps, t, window_seconds) ==
    SelectSeq(stamps, LAMBDA timestamp : t - timestamp < window_seconds)

\* len(rate_limit_storage[limit_type][identifier]) >= max_requests
Exceeded(stamps, max_requests) == Len(stamps) >= max_requests

\* A denial whose retryAfter is a fixed minute.
RateLimitResponseFixed(config) ==
    [status |-> 429, error |-> "Rate limit exceeded", retryAfter |-> 60]

\* (jsonify({'error': ..., 'retryAfter': window_seconds}), 429)
RateLimitResponse(config) ==
    [status |-> 429, error |-> "Rate limit exceeded", retryAfter |-> config.window]

\* The return value of a handler that ran: its status (0 for None).
Returned(status) == [status |-> status, error |-> "", retryAfter |-> 0]

\* jsonify(body), status
JsonResponse(status, body) ==
    [status |-> status, error |-> "", retryAfter |-> 0, body |-> body]

\* validate_input(schema) (lines 93-126): the schemas are dicts, so
\* hasattr(schema, 'query') and hasattr(schema, 'params') are both False,
\* no parameter is looked at and the wrapped function is called.
validate_input(body) == body

\* A limiter that records the time of a request it denies.
rate_limit_records_denied(limit_type, req, body, skipped) ==
    LET identifier == Identifier(req)
        config == Config(limit_type)
        cleaned == CleanOld(rate_limit_storage[limit_type][identifier], now,
                            config.window)
    IN  IF Exceeded(cleaned, config.requests)
        THEN /\ rate_limit_storage' =
                    [rate_limit_storage EXCEPT ![limit_type][identifier] =
                        Append(Tail(cleaned), now)]
             /\ response' = RateLimitResponse(config)
             /\ skipped
        ELSE /\ rate_limit_storage' =
                    [rate_limit_storage EXCEPT ![limit_type][identifier] =
                        Append(cleaned, now)]
             /\ body

\* decorated_function: clean old requests, deny (the body is skipped: `skipped`
\* states what the body would have changed stays as it is), or record the
\* request and run the body.
rate_limit(limit_type, req, body, skipped) ==
    LET identifier == Identifier(req)
        config == Config(limit_type)
        cleaned == CleanOld(rate_limit_storage[limit_type][identifier], now,
                            config.window)
    IN  IF Exceeded(cleaned, config.requests)
        THEN /\ rate_limit_storage' =
                    [rate_limit_storage EXCEPT ![limit_type][identifier] = cleaned]
             /\ response' = RateLimitResponse(config)
             /\ skipped
        ELSE /\ rate_limit_storage' =
                    [rate_limit_storage EXCEPT ![limit_type][identifier] =
                        Append(cleaned, now)]
             /\ body

\* The operation a step executes: its name, the connection and the payload.
Op(name, sid, data) == [op |-> name, sid |-> sid, data |-> data]

(***************************************************************************)
(* Events to clients.                                                      *)
(***************************************************************************)
Event(name, to, symbols, message, batch) ==
    [event |-> name, to |-> to, symbols |-> symbols, message |-> message,
     batch |-> batch]

ErrorEvent(sid, message) == Event("error", {sid}, <<>>, message, EmptyMap)
Ack(name, sid, symbols) == Event(name, {sid}, symbols, "", EmptyMap)

(***************************************************************************)
(* The subscription registry and its websocket handlers (lines 314-439).   *)
(***************************************************************************)
Range(seq) == {seq[i] : i \in 1..Len(seq)}

\* del price_subscribers[symbol]
DelKey(subs, symbol) == [s \in DOMAIN subs \ {symbol} |-> subs[s]]

\* An add that replaces the subscriber set of the symbol.
AddSubscriberClobber(subs, symbol, sid) ==
    [s \in DOMAIN subs \cup {symbol} |-> IF s = symbol THEN {sid} ELSE subs[s]]

\* if symbol not in price_subscribers: price_subscribers[symbol] = set()
\* price_subscribers[symbol].add(request.sid)
AddSubscriber(subs, symbol, sid) ==
    [s \in DOMAIN subs \cup {symbol} |->
        IF s = symbol
        THEN (IF symbol \in DOMAIN subs THEN subs[symbol] ELSE {}) \cup {sid}
        ELSE subs[s]]

\* A removal that leaves the emptied entry in the registry.
DiscardKeepEmpty(subs, symbol, sid) ==
    IF symbol \in DOMAIN subs /\ sid \in subs[symbol]
    THEN [subs EXCEPT ![symbol] = subs[symbol] \ {sid}]
    ELSE subs

\* A removal that deletes the whole entry of the symbol.
DiscardDropsEntry(subs, symbol, sid) ==
    IF symbol \in DOMAIN subs /\ sid \in subs[symbol]
    THEN DelKey(subs, symbol)
    ELSE subs

\* if symbol in price_subscribers and request.sid in price_subscribers[symbol]:
\*     price_subscribers[symbol].discard(request.sid)
\*     if not price_subscribers[symbol]: del price_subscribers[symbol]
DiscardSubscriber(subs, symbol, sid) ==
    IF symbol \in DOMAIN subs /\ sid \in subs[symbol]
    THEN IF subs[symbol] \ {sid} = {}
         THEN DelKey(subs, symbol)
         ELSE [subs EXCEPT ![symbol] = subs[symbol] \ {sid}]
    ELSE subs

\* for symbol in valid_symbols: ... (lines 397-400)
RECURSIVE SubscribeLoop(_, _, _)
SubscribeLoop(subs, symbols, sid) ==
    IF symbols = <<>> THEN subs
    ELSE SubscribeLoop(AddSubscriber(subs, Head(symbols), sid), Tail(symbols), sid)

\* for symbol in symbols: ... (lines 429-433); `symbol in price_subscribers`
\* raises TypeError for an unhashable element, which ends the loop.
RECURSIVE UnsubscribeLoop(_, _, _)
UnsubscribeLoop(subs, symbols, sid) ==
    IF symbols = <<>> THEN [subs |-> subs, raised |-> FALSE]
    ELSE IF Head(symbols).t = "list" THEN [subs |-> subs, raised |-> TRUE]
    ELSE UnsubscribeLoop(DiscardSubscriber(subs, Head(symbols), sid),
                         Tail(symbols), sid)

\* A drop that deletes every entry the connection is in.
DropConnectionEntries(subs, sid) ==
    [s \in {k \in DOMAIN subs : sid \notin subs[k]} |-> subs[s]]

\* for symbol in list(price_subscribers.keys()): ... (lines 359-363)
DropConnection(subs, sid) ==
    [s \in {k \in DOMAIN subs : subs[k] # {sid}} |-> subs[s] \ {sid}]

\* valid_symbols = [s for s in symbols if isinstance(s, str) and symbol_pattern.match(s)]
ValidSymbols(symbols) == SelectSeq(symbols, SymbolPatternMatch)

\* start_price_updates(): the thread is created unless one is alive.
ThreadAlive == wpc \notin {"none", "exit"}

\* A start that raises the flag also when the thread is alive.
start_price_updates_raises ==
    IF ~ThreadAlive
    THEN /\ price_update_running' = TRUE
         /\ wpc' = "loop"
         /\ UNCHANGED <<wsymbols, wsnapshot, updated_prices, orphans>>
    ELSE /\ price_update_running' = TRUE
         /\ UNCHANGED workerVars

start_price_updates ==
    IF ~ThreadAlive
    THEN /\ price_update_running' = TRUE
         /\ wpc' = "loop"
         /\ UNCHANGED <<wsymbols, wsnapshot, updated_prices, orphans>>
    ELSE UNCHANGED <<price_update_running, workerVars>>


\* What a handler body leaves alone when it returns before the registry loop.
RegistryUntouched == UNCHANGED <<price_subscribers, price_update_running, workerVars>>

\* emit('error', {'message': ...}); return
Reject(sid, message) ==
    /\ emitted' = <<ErrorEvent(sid, message)>>
    /\ RegistryUntouched

\* The denied event: the body is not run, nothing is emitted.
EventSkipped ==
    /\ emitted' = <<>>
    /\ RegistryUntouched

\* The token of a connect (in auth_data or in the query string): none, one
\* that verify_firebase_token resolves to a uid, or one it rejects.
NoToken == [t |-> "token", given |-> FALSE, uid |-> None]
GoodToken == [t |-> "token", given |-> TRUE, uid |-> "u1"]
BadToken == [t |-> "token", given |-> TRUE, uid |-> None]
Tokens == {NoToken, GoodToken, BadToken}

\* handle_connect (lines 315-352): the socket server holds the connection;
\* the handler's session[...] assignment raises NameError (session is not
\* imported), which the except clause answers with an error event.
handle_connect(sid) ==
    /\ sid \notin connected
    /\ connected' = connected \cup {sid}
    /\ \E token \in Tokens : last' = Op("connect", sid, token)
    /\ prior' = holdings
    /\ UNCHANGED storeVars
    /\ quoted' = {}
    /\ emitted' = <<ErrorEvent(sid, "Connection failed")>>
    /\ UNCHANGED <<price_subscribers, price_update_running, workerVars,
                   rate_limit_storage, clockVars, cacheVars, response, route,
                   burst, threadVars>>

\* handle_disconnect (lines 354-363)
handle_disconnect(sid) ==
    /\ sid \in connected
    /\ connected' = connected \ {sid}
    /\ last' = Op("disconnect", sid, NoDict)
    /\ prior' = holdings
    /\ UNCHANGED storeVars
    /\ quoted' = {}
    /\ price_subscribers' = DropConnection(price_subscribers, sid)
    /\ emitted' = <<>>
    /\ UNCHANGED <<price_update_running, workerVars, rate_limit_storage,
                   clockVars, cacheVars, response, route, burst, threadVars>>

\* The body of handle_subscribe_prices (lines 367-410)
SubscribeBody(sid, data) ==
    LET symbols == GetSymbols(data)
        valid_symbols == ValidSymbols(symbols.items)
    IN  /\ response' = Returned(0)
        /\ IF BadData(data)
           THEN Reject(sid, "Invalid subscription data")
           ELSE IF symbols.st # "list" \/ Len(symbols.items) = 0
           THEN Reject(sid, "Invalid symbols list")
           ELSE IF Len(symbols.items) > 20
           THEN Reject(sid, "Too many symbols in subscription (max 20)")
           ELSE IF Len(valid_symbols) # Len(symbols.items)
           THEN Reject(sid, "Invalid symbol format detected")
           ELSE /\ price_subscribers' =
                       SubscribeLoop(price_subscribers, valid_symbols, sid)
                /\ IF DOMAIN price_subscribers' # {} /\ ~price_update_running
                   THEN start_price_updates
                   ELSE UNCHANGED <<price_update_running, workerVars>>
                /\ emitted' = <<Ack("subscribed", sid, valid_symbols)>>

\* @socketio.on('subscribe_prices') @rate_limit('websocket')
handle_subscribe_prices(sid, data) ==
    /\ sid \in connected
    /\ last' = Op("subscribe_prices", sid, data)
    /\ prior' = holdings
    /\ UNCHANGED storeVars
    /\ quoted' = {}
    /\ rate_limit("websocket", ConnRequest(sid), SubscribeBody(sid, data),
                  EventSkipped)
    /\ UNCHANGED <<connected, clockVars, cacheVars, route, threadVars>>

\* The body of handle_unsubscribe_prices (lines 414-439)
UnsubscribeBody(sid, data) ==
    LET symbols == GetSymbols(data)
        done == UnsubscribeLoop(price_subscribers, symbols.items, sid)
    IN  /\ response' = Returned(0)
        /\ UNCHANGED <<price_update_running, workerVars>>
        /\ IF BadData(data)
           THEN /\ emitted' = <<ErrorEvent(sid, "Invalid unsubscription data")>>
                /\ UNCHANGED price_subscribers
           ELSE IF symbols.st # "list"
           THEN /\ emitted' = <<ErrorEvent(sid, "Invalid symbols list")>>
                /\ UNCHANGED price_subscribers
           ELSE /\ price_subscribers' = done.subs
                /\ emitted' =
                    IF done.raised
                    THEN <<ErrorEvent(sid, "Unsubscription failed")>>
                    ELSE <<Ack("unsubscribed", sid, symbols.items)>>

\* @socketio.on('unsubscribe_prices') @rate_limit('websocket')
handle_unsubscribe_prices(sid, data) ==
    /\ sid \in connected
    /\ last' = Op("unsubscribe_prices", sid, data)
    /\ prior' = holdings
    /\ UNCHANGED storeVars
    /\ quoted' = {}
    /\ rate_limit("websocket", ConnRequest(sid), UnsubscribeBody(sid, data),
                  EventSkipped)
    /\ UNCHANGED <<connected, clockVars, cacheVars, route, threadVars>>

(***************************************************************************)
(* The price update worker (lines 254-312).                                *)
(***************************************************************************)
\* stop_price_updates()
stop_price_updates ==
    /\ price_update_running' = FALSE
    /\ last' = Op("stop_price_updates", None, NoDict)
    /\ prior' = holdings
    /\ UNCHANGED storeVars
    /\ quoted' = {}
    /\ UNCHANGED <<connected, price_subscribers, workerVars, rate_limit_storage,
                   clockVars, cacheVars, emitted, response, route, burst,
                   threadVars>>

\* The closes of the histories ticker.history(period='1d', interval='1m')
\* returns, in thousandths (12344 is 12.344); none of the fractions the worker
\* rounds for them lies halfway between two hundredths.
Closes == {0, 1000, 3000, 12344, 100000, 105000}

\* The histories: no point, one point, two points, and one of three points.
Hists ==
    {<<>>} \cup {<<c>> : c \in Closes} \cup {<<c, d>> : c, d \in Closes}
        \cup {<<100000, 1000, 105000>>}

\* What ticker.history gave the worker: a history, or an exception.
Fetched(hist) == [ok |-> TRUE, hist |-> hist]
FetchFailed == [ok |-> FALSE, hist |-> <<>>]

\* The integer nearest to n / d for d > 0, a tie going to the even one.
RoundDiv(n, d) ==
    LET q == n \div d
        r == n % d
    IN  IF 2 * r < d THEN q
        ELSE IF 2 * r > d THEN q + 1
        ELSE IF q % 2 = 0 THEN q ELSE q + 1

\* An update whose percentage is taken of the last close.
PriceUpdateOfLast(symbol, hist) ==
    LET current_price == hist[Len(hist)]
        change == current_price - hist[1]
    IN  [symbol |-> symbol,
         price |-> RoundDiv(current_price, 10),
         change |-> RoundDiv(change, 10),
         changePercent |-> IF current_price # 0
                           THEN RoundDiv(change * 10000, current_price) ELSE 0]

\* updated_prices[symbol] for a history with points (lines 286-298): price,
\* change and changePercent in hundredths, as round(x, 2) leaves them.
PriceUpdate(symbol, hist) ==
    LET current_price == hist[Len(hist)]
        prev_close == hist[1]
        change == current_price - prev_close
    IN  [symbol |-> symbol,
         price |-> RoundDiv(current_price, 10),
         change |-> RoundDiv(change, 10),
         changePercent |-> IF prev_close # 0
                           THEN RoundDiv(change * 10000, prev_close) ELSE 0]

workerFrame ==
    /\ prior' = holdings
    /\ UNCHANGED storeVars
    /\ UNCHANGED <<connected, price_subscribers, rate_limit_storage, clockVars,
                cacheVars, response, route, burst, threadVars>>

\* A loop that ends when it finds the registry empty.
WorkerLoopIdles ==
    /\ wpc = "loop"
    /\ IF ~price_update_running \/ DOMAIN price_subscribers = {}
       THEN wpc' = "exit" /\ UNCHANGED <<wsymbols, wsnapshot, updated_prices, orphans>>
       ELSE /\ wsymbols' = DOMAIN price_subscribers
            /\ wsnapshot' = DOMAIN price_subscribers
            /\ UNCHANGED orphans
            /\ updated_prices' = EmptyMap
            /\ wpc' = "fetch"
    /\ quoted' = {}
    /\ last' = Op("price_update_worker", None, NoDict)
    /\ UNCHANGED <<price_update_running, emitted>>
    /\ workerFrame

\* A loop that takes the keys of the registry once and keeps that list.
WorkerLoopStale ==
    /\ wpc = "loop"
    /\ IF ~price_update_running
       THEN wpc' = "exit" /\ UNCHANGED <<wsymbols, wsnapshot, updated_prices, orphans>>
       ELSE IF DOMAIN price_subscribers # {}
       THEN /\ wsnapshot' = IF wsnapshot = {} THEN DOMAIN price_subscribers
                            ELSE wsnapshot
            /\ wsymbols' = wsnapshot'
            /\ UNCHANGED orphans
            /\ updated_prices' = EmptyMap
            /\ wpc' = "fetch"
       ELSE wpc' = "sleep30" /\ UNCHANGED <<wsymbols, wsnapshot, updated_prices, orphans>>
    /\ quoted' = {}
    /\ last' = Op("price_update_worker", None, NoDict)
    /\ UNCHANGED <<price_update_running, emitted>>
    /\ workerFrame

\* while price_update_running: if price_subscribers: symbols = list(keys)
WorkerLoop ==
    /\ wpc = "loop"
    /\ IF ~price_update_running
       THEN wpc' = "exit" /\ UNCHANGED <<wsymbols, wsnapshot, updated_prices, orphans>>
       ELSE IF DOMAIN price_subscribers # {}
       THEN /\ wsymbols' = DOMAIN price_subscribers
            /\ wsnapshot' = DOMAIN price_subscribers
            /\ UNCHANGED orphans
            /\ updated_prices' = EmptyMap
            /\ wpc' = "fetch"
       ELSE wpc' = "sleep30" /\ UNCHANGED <<wsymbols, wsnapshot, updated_prices, orphans>>
    /\ quoted' = {}
    /\ last' = Op("price_update_worker", None, NoDict)
    /\ UNCHANGED <<price_update_running, emitted>>
    /\ workerFrame

\* A for loop over the live registry: a symbol subscribed during the cycle is
\* fetched in it.
WorkerFetchLive(hists) ==
    /\ wpc = "fetch"
    /\ \E symbol \in wsymbols \cup (DOMAIN price_subscribers \ wsnapshot) :
        /\ quoted' = {symbol}
        /\ \/ \E hist \in hists :
                /\ updated_prices' =
                        IF Len(hist) > 0
                        THEN [s \in DOMAIN updated_prices \cup {symbol} |->
                                IF s = symbol THEN PriceUpdate(symbol, hist)
                                ELSE updated_prices[s]]
                        ELSE updated_prices
                /\ last' = Op("ticker.history", symbol, Fetched(hist))
           \/ /\ UNCHANGED updated_prices
              /\ last' = Op("ticker.history", symbol, FetchFailed)
        /\ wsymbols' = wsymbols \ {symbol}
    /\ UNCHANGED <<wpc, wsnapshot, orphans, price_update_running, emitted>>
    /\ workerFrame

\* A for loop that a failed fetch ends: the symbols left are not fetched.
WorkerFetchAborts(hists) ==
    /\ wpc = "fetch"
    /\ \E symbol \in wsymbols :
        /\ quoted' = {symbol}
        /\ \/ \E hist \in hists :
                /\ updated_prices' =
                        IF Len(hist) > 0
                        THEN [s \in DOMAIN updated_prices \cup {symbol} |->
                                IF s = symbol THEN PriceUpdate(symbol, hist)
                                ELSE updated_prices[s]]
                        ELSE updated_prices
                /\ wsymbols' = wsymbols \ {symbol}
                /\ last' = Op("ticker.history", symbol, Fetched(hist))
           \/ /\ UNCHANGED updated_prices
              /\ wsymbols' = {}
              /\ last' = Op("ticker.history", symbol, FetchFailed)
    /\ UNCHANGED <<wpc, wsnapshot, orphans, price_update_running, emitted>>
    /\ workerFrame

\* One iteration of `for symbol in symbols`: a history with points adds the
\* update, an empty history or an exception adds nothing.
WorkerFetchFrom(hists) ==
    /\ wpc = "fetch"
    /\ \E symbol \in wsymbols :
        /\ wsymbols' = wsymbols \ {symbol}
        /\ quoted' = {symbol}
        /\ \/ \E hist \in hists :
                /\ updated_prices' =
                        IF Len(hist) > 0
                        THEN [s \in DOMAIN updated_prices \cup {symbol} |->
                                IF s = symbol THEN PriceUpdate(symbol, hist)
                                ELSE updated_prices[s]]
                        ELSE updated_prices
                /\ last' = Op("ticker.history", symbol, Fetched(hist))
           \/ /\ UNCHANGED updated_prices
              /\ last' = Op("ticker.history", symbol, FetchFailed)
    /\ UNCHANGED <<wpc, wsnapshot, orphans, price_update_running, emitted>>
    /\ workerFrame

WorkerFetch == WorkerFetchFrom(Hists)

\* The recipients of socketio.emit(..., broadcast=True): every connected client.
BroadcastTo(batch) == connected

\* A dispatch that consults the registry: the clients subscribed to a symbol
\* of the batch.
SubscribersOf(batch) ==
    UNION {price_subscribers[s] : s \in DOMAIN batch \cap DOMAIN price_subscribers}

\* An emit without the test `if updated_prices`.
WorkerBroadcastAlways ==
    /\ wpc = "fetch"
    /\ wsymbols = {}
    /\ \/ /\ emitted' = <<Event("price_updates", BroadcastTo(updated_prices),
                                <<>>, "", updated_prices)>>
          /\ wpc' = "sleep30"
       \/ /\ wpc' = "sleep60"
          /\ UNCHANGED emitted
    /\ quoted' = {}
    /\ last' = Op("price_update_worker", None, NoDict)
    /\ UNCHANGED <<wsymbols, wsnapshot, updated_prices, orphans, price_update_running>>
    /\ workerFrame

\* if updated_prices: socketio.emit('price_updates', updated_prices, broadcast=True)
\* then time.sleep(30); an exception of the emit leads to time.sleep(60).
WorkerBroadcast ==
    /\ wpc = "fetch"
    /\ wsymbols = {}
    /\ IF DOMAIN updated_prices # {}
       THEN \/ /\ emitted' = <<Event("price_updates", BroadcastTo(updated_prices),
                                      <<>>, "", updated_prices)>>
               /\ wpc' = "sleep30"
            \/ /\ wpc' = "sleep60"
               /\ UNCHANGED emitted
       ELSE wpc' = "sleep30" /\ UNCHANGED emitted
    /\ quoted' = {}
    /\ last' = Op("price_update_worker", None, NoDict)
    /\ UNCHANGED <<wsymbols, wsnapshot, updated_prices, orphans, price_update_running>>
    /\ workerFrame

\* A whole cycle of the worker at once, from the loop test to the end of its
\* sleep: `fetched` are the symbols of the snapshot whose fetch gave a history
\* with points.
WorkerCycle ==
    /\ wpc = "loop"
    /\ IF ~price_update_running
       THEN wpc' = "exit" /\ quoted' = {} /\ UNCHANGED emitted
       ELSE /\ wpc' = "loop"
            /\ quoted' = DOMAIN price_subscribers
            /\ \E fetched \in SUBSET DOMAIN price_subscribers :
                LET batch == [s \in fetched |-> PriceUpdate(s, <<100000, 105000>>)]
                IN  IF fetched # {}
                    THEN \/ emitted' = <<Event("price_updates", BroadcastTo(batch),
                                               <<>>, "", batch)>>
                         \/ UNCHANGED emitted
                    ELSE UNCHANGED emitted
    /\ last' = Op("price_update_worker", None, NoDict)
    /\ UNCHANGED <<wsymbols, wsnapshot, updated_prices, orphans, price_update_running>>
    /\ workerFrame

\* A worker that ends after the sleep of its except clause.
WorkerWakeEnds ==
    /\ wpc \in {"sleep30", "sleep60"}
    /\ wpc' = IF wpc = "sleep60" THEN "exit" ELSE "loop"
    /\ quoted' = {}
    /\ last' = Op("price_update_worker", None, NoDict)
    /\ UNCHANGED <<wsymbols, wsnapshot, updated_prices, orphans, price_update_running, emitted>>
    /\ workerFrame

\* The end of time.sleep(30) / time.sleep(60).
WorkerWake ==
    /\ wpc \in {"sleep30", "sleep60"}
    /\ wpc' = "loop"
    /\ quoted' = {}
    /\ last' = Op("price_update_worker", None, NoDict)
    /\ UNCHANGED <<wsymbols, wsnapshot, updated_prices, orphans, price_update_running, emitted>>
    /\ workerFrame

(***************************************************************************)
(* The service: websocket events and refresh cycles.                       *)
(***************************************************************************)
\* The events as the service receives them.
subscribe_prices(sid, data) == handle_subscribe_prices(sid, data) /\ UNCHANGED burst
unsubscribe_prices(sid, data) == handle_unsubscribe_prices(sid, data) /\ UNCHANGED burst

NoRoute == [endpoint |-> None, req |-> [remote_addr |-> None, user_id |-> None]]
NoBurst == [start |-> 0, count |-> 0, lastAllowed |-> 0]
NoStamps == [lt \in LimitTypes |-> [id \in Identifiers |-> <<>>]]

Init ==
    /\ connected = {}
    /\ price_subscribers = EmptyMap
    /\ price_update_running = FALSE
    /\ wpc = "none"
    /\ wsymbols = {}
    /\ wsnapshot = {}
    /\ orphans = 0
    /\ updated_prices = EmptyMap
    /\ rate_limit_storage = NoStamps
    /\ now = 0
    /\ ticks = 0
    /\ cache = EmptyMap
    /\ emitted = <<>>
    /\ last = Op("start", None, NoDict)
    /\ response = Returned(0)
    /\ route = NoRoute
    /\ got = <<None, None>>
    /\ lastSet = EmptyMap
    /\ burst = NoBurst
    /\ tpc = EmptyMap
    /\ tnow = EmptyMap
    /\ tfiltered = EmptyMap
    /\ db = TRUE
    /\ holdings = EmptyMap
    /\ txlog = <<>>
    /\ watchlists = EmptyMap
    /\ quoted = {}
    /\ prior = holdings
    /\ tref = EmptyMap

Next ==
    \/ \E sid \in Conns : handle_connect(sid)
    \/ \E sid \in Conns : handle_disconnect(sid)
    \/ \E sid \in Conns, data \in SubscribePayloads : subscribe_prices(sid, data)
    \/ \E sid \in Conns, data \in UnsubscribePayloads : unsubscribe_prices(sid, data)
    \/ WorkerCycle

Spec == Init /\ [][Next]_vars

(***************************************************************************)
(* The time-bounded cache (lines 213-232) and a handler that uses it.      *)
(***************************************************************************)
CACHE_DURATION == 300

CacheKeys == {"market_indices", "trending_stocks"}
CacheData == {"v1", "v2"}

\* A lookup that still serves an entry of age CACHE_DURATION.
CacheGetInclusive(c, key, t) ==
    IF key \in DOMAIN c /\ t - c[key][2] <= CACHE_DURATION THEN c[key][1] ELSE None

\* get_cached_data(key) at time t
CacheGet(c, key, t) ==
    IF key \in DOMAIN c /\ t - c[key][2] < CACHE_DURATION THEN c[key][1] ELSE None

\* cache[key] = (data, datetime.now().timestamp())
CacheSet(c, key, data, t) ==
    [k \in DOMAIN c \cup {key} |-> IF k = key THEN <<data, t>> ELSE c[k]]

cacheFrame ==
    UNCHANGED <<connected, price_subscribers, price_update_running, workerVars,
                rate_limit_storage, emitted, response, route, burst, threadVars>>

get_cached_data(key) ==
    /\ got' = <<key, CacheGet(cache, key, now)>>
    /\ last' = Op("get_cached_data", None, NoDict)
    /\ prior' = holdings
    /\ UNCHANGED storeVars
    /\ quoted' = {}
    /\ UNCHANGED <<cache, lastSet, clockVars>>
    /\ cacheFrame

set_cached_data(key, data) ==
    /\ cache' = CacheSet(cache, key, data, now)
    /\ lastSet' = [k \in DOMAIN lastSet \cup {key} |->
                        IF k = key THEN <<data, now>> ELSE lastSet[k]]
    /\ last' = Op("set_cached_data", None, NoDict)
    /\ prior' = holdings
    /\ UNCHANGED storeVars
    /\ quoted' = {}
    /\ UNCHANGED <<got, clockVars>>
    /\ cacheFrame

\* Time passes: a second, or a second less than the cache duration.
CacheTick ==
    /\ ticks < MaxCacheTicks
    /\ \E d \in {1, CACHE_DURATION - 1} : now' = now + d
    /\ ticks' = ticks + 1
    /\ last' = Op("tick", None, NoDict)
    /\ prior' = holdings
    /\ UNCHANGED storeVars
    /\ quoted' = {}
    /\ UNCHANGED <<cache, got, lastSet>>
    /\ cacheFrame

NextCache ==
    \/ \E key \in CacheKeys : get_cached_data(key)
    \/ \E key \in CacheKeys, data \in CacheData : set_cached_data(key, data)
    \/ CacheTick

SpecCache == Init /\ [][NextCache]_vars

\* symbols = ['^IXIC', '^DJI', '^GSPC']
IndexSymbols == {Str(<<"^", "I", "X", "I", "C">>), DJI, Str(<<"^", "G", "S", "P", "C">>)}

\* A body that asks the quote source before it looks at the cache.
CachedListFetchesFirst(key, priced, symbols) ==
    LET cached_data == CacheGet(cache, key, now)
    IN  /\ got' = <<key, cached_data>>
        /\ quoted' = symbols
        /\ IF cached_data # None
           THEN /\ response' = JsonResponse(200, cached_data)
                /\ UNCHANGED <<cache, lastSet>>
           ELSE IF priced # {}
           THEN /\ cache' = CacheSet(cache, key, "v1", now)
                /\ lastSet' = [k \in DOMAIN lastSet \cup {key} |->
                                IF k = key THEN <<"v1", now>> ELSE lastSet[k]]
                /\ response' = JsonResponse(200, "v1")
           ELSE /\ response' = JsonResponse(500, None)
                /\ UNCHANGED <<cache, lastSet>>

\* A handler body that answers a list of quotes (lines 456-512, 517-590):
\* the cached list, or a fetch of `symbols` of which `priced` gave a quote;
\* the list is cached and returned when it has an element (`if indices:`,
\* `if stocks:`), and no element gives 500 with nothing cached.
CachedList(key, priced, symbols) ==
    LET cached_data == CacheGet(cache, key, now)
    IN  /\ got' = <<key, cached_data>>
        /\ quoted' = IF cached_data # None THEN {} ELSE symbols
        /\ IF cached_data # None
           THEN /\ response' = JsonResponse(200, cached_data)
                /\ UNCHANGED <<cache, lastSet>>
           ELSE IF priced # {}
           THEN /\ cache' = CacheSet(cache, key, "v1", now)
                /\ lastSet' = [k \in DOMAIN lastSet \cup {key} |->
                                IF k = key THEN <<"v1", now>> ELSE lastSet[k]]
                /\ response' = JsonResponse(200, "v1")
           ELSE /\ response' = JsonResponse(500, None)
                /\ UNCHANGED <<cache, lastSet>>

\* The symbols of a list whose fetch can give a quote: none when the cache
\* answers, since no symbol is fetched then.
Quotable(key, symbols) ==
    IF CacheGet(cache, key, now) # None THEN {{}} ELSE SUBSET symbols

\* The body of get_market_indices (lines 454-512)
MarketIndicesBody(priced) == CachedList("market_indices", priced, IndexSymbols)

\* @app.route('/api/market-indices') @rate_limit('default')
get_market_indices(req) ==
    /\ prior' = holdings
    /\ UNCHANGED storeVars
    /\ rate_limit("default", req,
                  \E priced \in Quotable("market_indices", IndexSymbols) :
                      /\ last' = Op("get_market_indices", None, priced)
                      /\ MarketIndicesBody(priced),
                  /\ last' = Op("get_market_indices", None, {})
                  /\ UNCHANGED cacheVars
                  /\ quoted' = {})
    /\ UNCHANGED <<connected, price_subscribers, price_update_running, workerVars,
                   clockVars, emitted, route, threadVars>>

\* The symbols user_id holds shares of: the holdings the portfolio query
\* streams, without those the loop skips (shares <= 0).
HeldSymbols(user_id) ==
    {k[2] : k \in {h \in DOMAIN holdings : h[1] = user_id /\ holdings[h].shares > 0}}

\* A body that returns the holdings of the user of the path to any caller.
PortfolioBodyOpen(req, user_id) ==
    IF ~db
    THEN response' = Returned(500) /\ quoted' = {}
    ELSE \/ /\ quoted' = {Str(cs) : cs \in HeldSymbols(user_id)}
            /\ \E priced \in SUBSET HeldSymbols(user_id) :
                 response' = JsonResponse(200, [userId |-> user_id, symbols |-> priced])
         \/ response' = Returned(500) /\ quoted' = {}

\* The body of get_user_portfolio (lines 821-888): 500 without a database,
\* 403 for another user's portfolio, else the holdings of user_id whose quote
\* could be fetched, or 500 when the store fails.
PortfolioBody(req, user_id) ==
    IF ~db
    THEN response' = Returned(500) /\ quoted' = {}
    ELSE IF req.user_id = None \/ req.user_id # user_id
    THEN response' = Returned(403) /\ quoted' = {}
    ELSE \/ /\ quoted' = {Str(cs) : cs \in HeldSymbols(user_id)}
            /\ \E priced \in SUBSET HeldSymbols(user_id) :
                 response' = JsonResponse(200, [userId |-> user_id, symbols |-> priced])
         \/ response' = Returned(500) /\ quoted' = {}

\* @app.route('/api/portfolio/<user_id>') @require_auth @rate_limit('authenticated')
get_user_portfolio(req, user_id) ==
    /\ last' = Op("get_user_portfolio", req.user_id, user_id)
    /\ prior' = holdings
    /\ UNCHANGED storeVars
    /\ IF req.user_id = None
       THEN response' = Returned(401) /\ quoted' = {} /\ UNCHANGED rate_limit_storage
       ELSE rate_limit("authenticated", req,
                       validate_input(PortfolioBody(req, user_id)), quoted' = {})
    /\ UNCHANGED <<connected, price_subscribers, price_update_running, workerVars,
                   clockVars, cacheVars, emitted, route, threadVars>>

(***************************************************************************)
(* The rate limiter under the traffic of one client on one route.          *)
(***************************************************************************)
Anonymous == [remote_addr |-> "10.0.0.1", user_id |-> None]
User1 == [remote_addr |-> "10.0.0.1", user_id |-> "u1"]

Traffic ==
    {[endpoint |-> "subscribe_prices", req |-> Anonymous],
     [endpoint |-> "market_indices", req |-> Anonymous],
     [endpoint |-> "market_indices", req |-> User1],
     [endpoint |-> "portfolio", req |-> User1]}

\* The limit class of the route's decorator.
LimitTypeOf(endpoint) ==
    CASE endpoint = "subscribe_prices" -> "websocket"
      [] endpoint = "market_indices" -> "default"
      [] endpoint = "portfolio" -> "authenticated"

\* The limits as the contract states them: maximum and window per class.
StatedLimits ==
    [default |-> [requests |-> 60, window |-> 60],
     authenticated |-> [requests |-> 120, window |-> 60],
     websocket |-> [requests |-> 10, window |-> 10]]

RouteLimit == StatedLimits[LimitTypeOf(route.endpoint)]

\* No allowed request of the client lies inside the window.
WindowEmpty == burst.count = 0 \/ now - burst.lastAllowed >= RouteLimit.window

\* The burst of the client's requests: when it started from an empty window,
\* how many requests it has (counted up to one past the maximum), and when
\* the latest request was allowed.
Counted ==
    burst' =
        [start |-> IF WindowEmpty THEN now ELSE burst.start,
         count |-> IF WindowEmpty THEN 1
                   ELSE IF now - burst.start < RouteLimit.window
                            /\ burst.count <= RouteLimit.requests
                   THEN burst.count + 1
                   ELSE burst.count,
         lastAllowed |-> IF response'.status # 429 THEN now ELSE burst.lastAllowed]

RLConnect ==
    /\ route.endpoint = "subscribe_prices"
    /\ handle_connect("c1")

RLSubscribe ==
    /\ route.endpoint = "subscribe_prices"
    /\ \E data \in {NoDict, Dict("list", <<AAPL>>)} :
        handle_subscribe_prices("c1", data)
    /\ Counted

RLUnsubscribe ==
    /\ route.endpoint = "subscribe_prices"
    /\ handle_unsubscribe_prices("c1", Dict("list", <<AAPL>>))
    /\ Counted

RLMarketIndices ==
    /\ route.endpoint = "market_indices"
    /\ get_market_indices(route.req)
    /\ Counted

RLPortfolio ==
    /\ route.endpoint = "portfolio"
    /\ \E user_id \in {"u1", "u2"} : get_user_portfolio(route.req, user_id)
    /\ Counted

\* The clock advances of a run: MaxRLTicks for the websocket class, whose
\* window holds the fewest requests, and one for the larger classes.
TickBudget == IF LimitTypeOf(route.endpoint) = "websocket" THEN MaxRLTicks ELSE 1

\* Time passes: a second, a second less than the window, or the window.
RLTick ==
    /\ ticks < TickBudget
    /\ \E d \in {1, RouteLimit.window - 1, RouteLimit.window} : now' = now + d
    /\ ticks' = ticks + 1
    /\ last' = Op("tick", None, NoDict)
    /\ prior' = holdings
    /\ UNCHANGED storeVars
    /\ quoted' = {}
    /\ UNCHANGED <<connected, price_subscribers, price_update_running, workerVars,
                   rate_limit_storage, cacheVars, emitted, response, route, burst,
                   threadVars>>

InitRL ==
    /\ connected = {}
    /\ price_subscribers = EmptyMap
    /\ price_update_running = FALSE
    /\ wpc = "none"
    /\ wsymbols = {}
    /\ wsnapshot = {}
    /\ orphans = 0
    /\ updated_prices = EmptyMap
    /\ rate_limit_storage = NoStamps
    /\ now = 0
    /\ ticks = 0
    /\ cache = EmptyMap
    /\ emitted = <<>>
    /\ last = Op("start", None, NoDict)
    /\ response = Returned(0)
    /\ route \in Traffic
    /\ got = <<None, None>>
    /\ lastSet = EmptyMap
    /\ burst = NoBurst
    /\ tpc = EmptyMap
    /\ tnow = EmptyMap
    /\ tfiltered = EmptyMap
    /\ db = TRUE
    /\ holdings = EmptyMap
    /\ txlog = <<>>
    /\ watchlists = EmptyMap
    /\ quoted = {}
    /\ prior = holdings
    /\ tref = EmptyMap

NextRL ==
    \/ RLConnect
    \/ RLSubscribe
    \/ RLUnsubscribe
    \/ RLMarketIndices
    \/ RLPortfolio
    \/ RLTick

SpecRL == InitRL /\ [][NextRL]_vars

(***************************************************************************)
(* The rate limiter under two requests of one client handled at once: the  *)
(* steps of decorated_function (lines 61-76) of the threads interleave.    *)
(***************************************************************************)
Threads == {"t1", "t2"}
ConcType == "websocket"
ConcId == Identifier(Anonymous)

concFrame ==
    UNCHANGED <<connected, price_subscribers, price_update_running, workerVars,
                cacheVars, emitted, route, burst, tref>>

\* now = time.time()
ReqEnter(t) ==
    /\ tpc[t] = "idle"
    /\ tnow' = [tnow EXCEPT ![t] = now]
    /\ tpc' = [tpc EXCEPT ![t] = "clean"]
    /\ last' = Op("enter", t, NoDict)
    /\ prior' = holdings
    /\ UNCHANGED storeVars
    /\ quoted' = {}
    /\ UNCHANGED <<rate_limit_storage, tfiltered, response, clockVars>>
    /\ concFrame

\* the list comprehension over the stored timestamps
ReqClean(t) ==
    /\ tpc[t] = "clean"
    /\ tfiltered' = [tfiltered EXCEPT ![t] =
            CleanOld(rate_limit_storage[ConcType][ConcId], tnow[t],
                     Config(ConcType).window)]
    /\ tpc' = [tpc EXCEPT ![t] = "store"]
    /\ last' = Op("clean", t, NoDict)
    /\ prior' = holdings
    /\ UNCHANGED storeVars
    /\ quoted' = {}
    /\ UNCHANGED <<rate_limit_storage, tnow, response, clockVars>>
    /\ concFrame

\* rate_limit_storage[limit_type][identifier] = [...]
ReqStore(t) ==
    /\ tpc[t] = "store"
    /\ rate_limit_storage' =
            [rate_limit_storage EXCEPT ![ConcType][ConcId] = tfiltered[t]]
    /\ tpc' = [tpc EXCEPT ![t] = "check"]
    /\ last' = Op("store", t, NoDict)
    /\ prior' = holdings
    /\ UNCHANGED storeVars
    /\ quoted' = {}
    /\ UNCHANGED <<tnow, tfiltered, response, clockVars>>
    /\ concFrame

\* if len(rate_limit_storage[limit_type][identifier]) >= max_requests: return ..., 429
ReqCheck(t) ==
    /\ tpc[t] = "check"
    /\ IF Exceeded(rate_limit_storage[ConcType][ConcId], Config(ConcType).requests)
       THEN /\ response' = RateLimitResponse(Config(ConcType))
            /\ tpc' = [tpc EXCEPT ![t] = "idle"]
       ELSE /\ tpc' = [tpc EXCEPT ![t] = "append"]
            /\ UNCHANGED response
    /\ last' = Op("check", t, NoDict)
    /\ prior' = holdings
    /\ UNCHANGED storeVars
    /\ quoted' = {}
    /\ UNCHANGED <<rate_limit_storage, tnow, tfiltered, clockVars>>
    /\ concFrame

\* rate_limit_storage[limit_type][identifier].append(now); return f(...)
ReqAppend(t) ==
    /\ tpc[t] = "append"
    /\ rate_limit_storage' =
            [rate_limit_storage EXCEPT ![ConcType][ConcId] =
                Append(rate_limit_storage[ConcType][ConcId], tnow[t])]
    /\ response' = Returned(0)
    /\ tpc' = [tpc EXCEPT ![t] = "idle"]
    /\ last' = Op("append", t, NoDict)
    /\ prior' = holdings
    /\ UNCHANGED storeVars
    /\ quoted' = {}
    /\ UNCHANGED <<tnow, tfiltered, clockVars>>
    /\ concFrame

\* Time passes: the length of the window.
ConcTick ==
    /\ ticks < MaxConcTicks
    /\ now' = now + Config(ConcType).window
    /\ ticks' = ticks + 1
    /\ last' = Op("tick", None, NoDict)
    /\ prior' = holdings
    /\ UNCHANGED storeVars
    /\ quoted' = {}
    /\ UNCHANGED <<rate_limit_storage, response, tpc, tnow, tfiltered>>
    /\ concFrame

InitConc ==
    /\ connected = {}
    /\ price_subscribers = EmptyMap
    /\ price_update_running = FALSE
    /\ wpc = "none"
    /\ wsymbols = {}
    /\ wsnapshot = {}
    /\ orphans = 0
    /\ updated_prices = EmptyMap
    /\ rate_limit_storage = NoStamps
    /\ now = 0
    /\ ticks = 0
    /\ cache = EmptyMap
    /\ emitted = <<>>
    /\ last = Op("start", None, NoDict)
    /\ response = Returned(0)
    /\ route = NoRoute
    /\ got = <<None, None>>
    /\ lastSet = EmptyMap
    /\ burst = NoBurst
    /\ tpc = [t \in Threads |-> "idle"]
    /\ tnow = [t \in Threads |-> 0]
    /\ tfiltered = [t \in Threads |-> <<>>]
    /\ db = TRUE
    /\ holdings = EmptyMap
    /\ txlog = <<>>
    /\ watchlists = EmptyMap
    /\ quoted = {}
    /\ prior = holdings
    /\ tref = EmptyMap

NextConc ==
    \/ \E t \in Threads : ReqEnter(t)
    \/ \E t \in Threads : ReqClean(t)
    \/ \E t \in Threads : ReqStore(t)
    \/ \E t \in Threads : ReqCheck(t)
    \/ \E t \in Threads : ReqAppend(t)
    \/ ConcTick

SpecRLConc == InitConc /\ [][NextConc]_vars

(***************************************************************************)
(* The REST routes (lines 441-1069).                                       *)
(***************************************************************************)
restFrame ==
    UNCHANGED <<connected, price_subscribers, price_update_running, workerVars,
                clockVars, emitted, route, threadVars>>

\* The ghost of set_cached_data(key, data): the latest data and its time.
Stored(key, data) ==
    lastSet' = [k \in DOMAIN lastSet \cup {key} |->
                    IF k = key THEN <<data, now>> ELSE lastSet[k]]

\* A handler body that consults the cache before the quote source: the
\* cached data, or a fetch whose data is cached, or one of the failures.
CachedFetch(key, data, failures, symbols) ==
    LET cached_data == CacheGet(cache, key, now)
    IN  /\ got' = <<key, cached_data>>
        /\ quoted' = IF cached_data # None THEN {} ELSE symbols
        /\ IF cached_data # None
           THEN /\ response' = JsonResponse(200, cached_data)
                /\ UNCHANGED <<cache, lastSet>>
           ELSE \/ /\ cache' = CacheSet(cache, key, data, now)
                   /\ Stored(key, data)
                   /\ response' = JsonResponse(200, data)
                \/ /\ \E status \in failures : response' = JsonResponse(status, None)
                   /\ UNCHANGED <<cache, lastSet>>

\* @app.route('/health') (lines 441-450): no decorator
health_check(req) ==
    /\ last' = Op("health_check", None, NoDict)
    /\ prior' = holdings
    /\ response' = JsonResponse(200, Cardinality(DOMAIN price_subscribers))
    /\ quoted' = {}
    /\ UNCHANGED <<rate_limit_storage, cacheVars, storeVars>>
    /\ restFrame

\* symbols = ['AAPL', 'GOOGL', 'MSFT', ...]: the first and the third
TrendingSymbols == {AAPL, MSFT}

\* @app.route('/api/trending-stocks') (lines 514-590): no decorator; no stock
\* fetched gives 500.
get_trending_stocks(req) ==
    \E priced \in Quotable("trending_stocks", TrendingSymbols) :
        /\ last' = Op("get_trending_stocks", None, priced)
        /\ prior' = holdings
        /\ CachedList("trending_stocks", priced, TrendingSymbols)
        /\ UNCHANGED <<rate_limit_storage, storeVars>>
        /\ restFrame

\* symbol.upper() of a lower case letter
Lower == <<"a", "b", "c", "d", "e", "f", "g", "h", "i", "j", "k", "l", "m",
           "n", "o", "p", "q", "r", "s", "t", "u", "v", "w", "x", "y", "z">>
Upper == <<"A", "B", "C", "D", "E", "F", "G", "H", "I", "J", "K", "L", "M",
           "N", "O", "P", "Q", "R", "S", "T", "U", "V", "W", "X", "Y", "Z">>

UpperChar(ch) ==
    IF \E i \in 1..26 : Lower[i] = ch
    THEN Upper[CHOOSE i \in 1..26 : Lower[i] = ch]
    ELSE ch

\* str.upper()
ToUpper(cs) == [i \in 1..Len(cs) |-> UpperChar(cs[i])]

\* cache_key = f"stock_{symbol.upper()}", for the symbols of the model
StockKey(symbol) ==
    CASE ToUpper(symbol.v) = AAPL.v -> "stock_AAPL"
      [] ToUpper(symbol.v) = MSFT.v -> "stock_MSFT"
      [] OTHER -> "stock_"

\* @app.route('/api/stock/<symbol>') @rate_limit('default') @validate_input
\* (lines 592-653): 404 for a history of less than 2 points, 500 on a failure.
get_stock_data(req, symbol) ==
    /\ last' = Op("get_stock_data", None, symbol)
    /\ prior' = holdings
    /\ rate_limit("default", req,
                  validate_input(CachedFetch(StockKey(symbol), "v1", {404, 500},
                                             {Str(ToUpper(symbol.v))})),
                  UNCHANGED cacheVars /\ quoted' = {})
    /\ UNCHANGED storeVars
    /\ restFrame

\* The symbol lists a client posts as its watchlist.
WatchSymbols == {<<>>, <<AAPL>>, <<MSFT, AAPL>>}

\* @app.route('/api/watchlist/<user_id>') (lines 1002-1029): no decorator
get_user_watchlist(req, user_id) ==
    /\ last' = Op("get_user_watchlist", None, NoDict)
    /\ prior' = holdings
    /\ IF ~db
       THEN response' = JsonResponse(500, None)
       ELSE IF req.user_id = None \/ req.user_id # user_id
       THEN response' = JsonResponse(403, None)
       ELSE \/ response' = JsonResponse(200, IF user_id \in DOMAIN watchlists
                                              THEN watchlists[user_id] ELSE <<>>)
            \/ response' = JsonResponse(500, None)
    /\ quoted' = {}
    /\ UNCHANGED <<rate_limit_storage, cacheVars, storeVars>>
    /\ restFrame

\* @app.route('/api/watchlist/<user_id>', methods=['POST']) (lines 1031-1069):
\* no decorator; the user's list is replaced, or the store fails.
update_user_watchlist(req, user_id, symbols) ==
    /\ last' = Op("update_user_watchlist", None, NoDict)
    /\ prior' = holdings
    /\ IF ~db
       THEN response' = JsonResponse(500, None) /\ UNCHANGED watchlists
       ELSE IF req.user_id = None \/ req.user_id # user_id
       THEN response' = JsonResponse(403, None) /\ UNCHANGED watchlists
       ELSE \/ /\ watchlists' = [u \in DOMAIN watchlists \cup {user_id} |->
                                    IF u = user_id THEN symbols ELSE watchlists[u]]
               /\ response' = JsonResponse(200, None)
            \/ response' = JsonResponse(500, None) /\ UNCHANGED watchlists
    /\ quoted' = {}
    /\ UNCHANGED <<rate_limit_storage, cacheVars, db, holdings, txlog>>
    /\ restFrame

(***************************************************************************)
(* GET /api/search (lines 655-815).                                        *)
(***************************************************************************)
\* Symbols of extended_symbols, in the order of the list (lines 704-750):
\* 'GOOGL', 'GOOG', ... 'ORCL', 'CRM', ... 'C', ... 'C'.
GOOGL == <<"G", "O", "O", "G", "L">>
GOOG == <<"G", "O", "O", "G">>
ORCL == <<"O", "R", "C", "L">>
CRM == <<"C", "R", "M">>
CSym == <<"C">>

extended_symbols == <<GOOGL, GOOG, ORCL, CRM, CSym, CSym>>

\* The query string of a search request: with a parameter q, or without.
Arg(cs) == [has |-> TRUE, v |-> cs]
NoArg == [has |-> FALSE, v |-> <<>>]

Queries ==
    {NoArg} \cup {Arg(cs) : cs \in {<<>>, <<" ", " ">>, <<"C">>,
                                     <<"g", "o", "o", "g", " ">>,
                                     <<"G", "O", "O", "G", "L">>,
                                     <<"R", ".">>, <<"Z", "Z">>}}

\* request.args.get('q', '')
ArgQ(q) == IF q.has THEN q.v ELSE <<>>

\* str.strip()
Strip(cs) ==
    LET inked == {i \in 1..Len(cs) : cs[i] # " "}
    IN  IF inked = {} THEN <<>>
        ELSE SubSeq(cs, CHOOSE i \in inked : \A j \in inked : i <= j,
                        CHOOSE i \in inked : \A j \in inked : i >= j)

\* query = request.args.get('q', '').strip().upper()
NormalQuery(q) == ToUpper(Strip(ArgQ(q)))

\* str.isalpha() on the upper-cased query
IsAlpha(cs) == Len(cs) > 0 /\ \A i \in 1..Len(cs) : \E k \in 1..26 : Upper[k] = cs[i]

\* symbol.startswith(query)
StartsWith(symbol, query) ==
    Len(query) <= Len(symbol) /\ SubSeq(symbol, 1, Len(query)) = query

\* query in symbol
Contains(symbol, query) ==
    \E off \in 0..(Len(symbol) - Len(query)) :
        SubSeq(symbol, off + 1, off + Len(query)) = query

\* sort_key(stock) (lines 797-804)
sort_key(symbol, query) ==
    IF symbol = query THEN 0
    ELSE IF StartsWith(symbol, query) THEN 1
    ELSE 2

\* The results in the order the scan found them.
SortNone(results, query) == results

\* results.sort(key=sort_key): stable, so each class keeps the scan's order
SortResults(results, query) ==
    SelectSeq(results, LAMBDA r : sort_key(r, query) = 0)
        \o SelectSeq(results, LAMBDA r : sort_key(r, query) = 1)
        \o SelectSeq(results, LAMBDA r : sort_key(r, query) = 2)

\* The positions of extended_symbols the scan asks the quote source about.
Candidates(query) ==
    {i \in 1..Len(extended_symbols) :
        Contains(extended_symbols[i], query) \/ StartsWith(extended_symbols[i], query)}

RECURSIVE Scan(_, _, _)
\* for symbol in extended_symbols: a candidate whose history has 2 points
\* is appended; the loop breaks at 15 results.
Scan(i, priced, results) ==
    IF i > Len(extended_symbols) \/ Len(results) >= 15 THEN results
    ELSE Scan(i + 1, priced,
              IF i \in priced THEN Append(results, extended_symbols[i]) ELSE results)

\* A body without the early return for the empty query.
SearchBodyAlwaysScans(q, direct, priced) ==
    LET query == NormalQuery(q)
    IN  IF query # <<>> /\ Len(query) <= 5 /\ IsAlpha(query) /\ direct
        THEN response' = JsonResponse(200, <<query>>) /\ quoted' = {Str(query)}
        ELSE /\ response' = JsonResponse(200, SortResults(Scan(1, priced, <<>>), query))
             /\ quoted' = {Str(extended_symbols[i]) : i \in Candidates(query)}

\* The body of search_stocks: an empty query gives the empty array; a query
\* of 1 to 5 letters that the quote source knows gives that one result; else
\* the scan's results sorted by relevance.  `direct` is whether the direct
\* lookup gave data, `priced` the candidates whose history has 2 points.
SearchBody(q, direct, priced) ==
    LET query == NormalQuery(q)
    IN  IF query = <<>>
        THEN response' = JsonResponse(200, <<>>) /\ quoted' = {}
        ELSE IF Len(query) <= 5 /\ IsAlpha(query) /\ direct
        THEN response' = JsonResponse(200, <<query>>) /\ quoted' = {Str(query)}
        ELSE /\ response' = JsonResponse(200, SortResults(Scan(1, priced, <<>>), query))
             /\ quoted' = {Str(extended_symbols[i]) : i \in Candidates(query)}
                            \cup (IF Len(query) <= 5 /\ IsAlpha(query)
                                  THEN {Str(query)} ELSE {})

\* What the quote source can answer to the calls of a search: whether the
\* direct lookup of the query gives data, and which candidates have a
\* history of 2 points.  An empty query makes no call.
Lookups(query) ==
    IF query # <<>> /\ Len(query) <= 5 /\ IsAlpha(query) THEN BOOLEAN ELSE {FALSE}

Priced(query) == IF query = <<>> THEN {{}} ELSE SUBSET Candidates(query)

\* @app.route('/api/search') @rate_limit('default') @validate_input
search_stocks(req, q) ==
    /\ last' = Op("search_stocks", None, q)
    /\ prior' = holdings
    /\ \E direct \in Lookups(NormalQuery(q)), priced \in Priced(NormalQuery(q)) :
        rate_limit("default", req, validate_input(SearchBody(q, direct, priced)),
                   quoted' = {})
    /\ UNCHANGED <<cacheVars, storeVars>>
    /\ restFrame

(***************************************************************************)
(* POST /api/portfolio/transaction (lines 891-1000).                       *)
(***************************************************************************)
\* JSON values of the request body.  A float is its number of tenths, a
\* string its characters; JMissing is a key the body does not have.
JInt(n) == [t |-> "int", n |-> n, cs |-> <<>>]
JFloat(tenths) == [t |-> "float", n |-> tenths, cs |-> <<>>]
JStr(cs) == [t |-> "str", n |-> 0, cs |-> cs]
JNull == [t |-> "null", n |-> 0, cs |-> <<>>]
JMissing == [t |-> "missing", n |-> 0, cs |-> <<>>]

\* The outcome of a conversion: a value, or an exception.
Value(v) == [ok |-> TRUE, v |-> v]
Raises == [ok |-> FALSE, v |-> 0]

Digits == <<"0", "1", "2", "3", "4", "5", "6", "7", "8", "9">>
IsDigit(ch) == \E d \in 1..10 : Digits[d] = ch
DigitValue(ch) == (CHOOSE d \in 1..10 : Digits[d] = ch) - 1

RECURSIVE ParseDigits(_)
\* the number a string of digits denotes
ParseDigits(cs) ==
    IF cs = <<>> THEN 0
    ELSE 10 * ParseDigits(SubSeq(cs, 1, Len(cs) - 1)) + DigitValue(cs[Len(cs)])

\* Rounding toward zero of n / d, for d > 0
Truncate(n, d) == IF n >= 0 THEN n \div d ELSE -((-n) \div d)

\* int(data.get('shares', 0)): an int stays, a float is truncated toward zero,
\* a string of digits is parsed, any other string and null raise.
ToInt(x) ==
    CASE x.t = "int" -> Value(x.n)
      [] x.t = "float" -> Value(Truncate(x.n, 10))
      [] x.t = "str" -> IF x.cs # <<>> /\ \A i \in 1..Len(x.cs) : IsDigit(x.cs[i])
                        THEN Value(ParseDigits(x.cs)) ELSE Raises
      [] x.t = "null" -> Raises
      [] x.t = "missing" -> Value(0)

RECURSIVE GCD(_, _)
GCD(a, b) == IF b = 0 THEN a ELSE GCD(b, a % b)

\* Prices and amounts are exact fractions num / den with den > 0, in lowest
\* terms (the rounding of the floats is not modelled).
Rat(num, den) ==
    LET g == GCD(IF num >= 0 THEN num ELSE -num, den)
    IN  IF num = 0 THEN [num |-> 0, den |-> 1] ELSE [num |-> num \div g, den |-> den \div g]

RatAdd(a, b) == Rat(a.num * b.den + b.num * a.den, a.den * b.den)
RatSub(a, b) == Rat(a.num * b.den - b.num * a.den, a.den * b.den)
RatTimes(n, a) == Rat(n * a.num, a.den)
RatOver(a, n) == Rat(a.num, a.den * n)

\* float(data.get('price', 0))
ToFloat(x) ==
    CASE x.t = "int" -> Value(Rat(x.n, 1))
      [] x.t = "float" -> Value(Rat(x.n, 10))
      [] x.t = "str" -> IF x.cs # <<>> /\ \A i \in 1..Len(x.cs) : IsDigit(x.cs[i])
                        THEN Value(Rat(ParseDigits(x.cs), 1)) ELSE Raises
      [] x.t = "null" -> Raises
      [] x.t = "missing" -> Value(Rat(0, 1))

\* data.get('symbol', '').upper(): null has no upper()
ToSymbol(x) ==
    CASE x.t = "str" -> Value(ToUpper(x.cs))
      [] x.t = "missing" -> Value(<<>>)
      [] OTHER -> Raises

\* A request body: the JSON object, or no JSON at all.
Body(symbol, type, shares, price) ==
    [json |-> TRUE, symbol |-> symbol, type |-> type, shares |-> shares, price |-> price]
NoBody == [json |-> FALSE, symbol |-> JMissing, type |-> JMissing, shares |-> JMissing,
           price |-> JMissing]

\* One holding document of the portfolios collection.
Holding(shares, averagePrice, totalInvested) ==
    [shares |-> shares, averagePrice |-> averagePrice, totalInvested |-> totalInvested]

SetHolding(hs, key, holding) ==
    [k \in DOMAIN hs \cup {key} |-> IF k = key THEN holding ELSE hs[k]]

\* holding_doc.reference.delete() that leaves the document in place.
KeepHolding(hs, key) == SetHolding(hs, key, Holding(0, hs[key].averagePrice, Rat(0, 1)))

\* holding_doc.reference.delete()
DeleteHolding(hs, key) == [k \in DOMAIN hs \ {key} |-> hs[k]]

\* if transaction_type == 'buy': update the holding, or create it
Buy(hs, key, shares, price) ==
    IF key \in DOMAIN hs
    THEN LET new_shares == hs[key].shares + shares
             new_invested == RatAdd(hs[key].totalInvested, RatTimes(shares, price))
         IN  SetHolding(hs, key, Holding(new_shares, RatOver(new_invested, new_shares),
                                         new_invested))
    ELSE SetHolding(hs, key, Holding(shares, price, RatTimes(shares, price)))

\* A partial sell that leaves totalInvested as it was.
SellKeepsInvested(hs, key, shares) ==
    LET new_shares == hs[key].shares - shares
    IN  IF new_shares = 0 THEN DeleteHolding(hs, key)
        ELSE SetHolding(hs, key,
                Holding(new_shares, hs[key].averagePrice, hs[key].totalInvested))

\* elif transaction_type == 'sell', for shares the holding has
Sell(hs, key, shares) ==
    LET new_shares == hs[key].shares - shares
    IN  IF new_shares = 0 THEN DeleteHolding(hs, key)
        ELSE SetHolding(hs, key,
                Holding(new_shares, hs[key].averagePrice,
                        RatSub(hs[key].totalInvested,
                               RatTimes(shares, hs[key].averagePrice))))

\* The steps of the handler after the checks of the data: the transaction is
\* recorded, then the holding is updated; over-selling returns 400 after the
\* record was written; the store may fail before or after the record.
ApplyTransaction(user_id, symbol, type, shares, price) ==
    LET key == <<user_id, symbol>>
        record == [userId |-> user_id, symbol |-> symbol, type |-> type,
                   shares |-> shares, price |-> price]
    IN  \/ /\ txlog' = Append(txlog, record)
           /\ IF type = "buy"
              THEN /\ holdings' = Buy(holdings, key, shares, price)
                   /\ response' = JsonResponse(200, None)
              ELSE IF key \notin DOMAIN holdings \/ holdings[key].shares < shares
              THEN /\ response' = JsonResponse(400, None)
                   /\ UNCHANGED holdings
              ELSE /\ holdings' = Sell(holdings, key, shares)
                   /\ response' = JsonResponse(200, None)
        \/ /\ txlog' = Append(txlog, record)
           /\ response' = JsonResponse(500, None)
           /\ UNCHANGED holdings
        \/ /\ response' = JsonResponse(500, None)
           /\ UNCHANGED <<holdings, txlog>>

\* type of the body as the handler compares it: 'buy', 'sell', another
\* value, or none (missing, null or the empty string).
TypeOf(x) ==
    IF x.t \in {"missing", "null"} \/ (x.t = "str" /\ x.cs = <<>>) THEN ""
    ELSE IF x.t = "str" /\ x.cs = <<"b", "u", "y">> THEN "buy"
    ELSE IF x.t = "str" /\ x.cs = <<"s", "e", "l", "l">> THEN "sell"
    ELSE "other"

\* @app.route('/api/portfolio/transaction', methods=['POST']): no decorator
execute_portfolio_transaction(req, data) ==
    /\ Len(txlog) < MaxTransactions
    /\ last' = Op("execute_portfolio_transaction", req.user_id, data)
    /\ prior' = holdings
    /\ IF ~db
       THEN response' = JsonResponse(500, None) /\ UNCHANGED <<holdings, txlog>>
       ELSE IF req.user_id = None
       THEN response' = JsonResponse(403, None) /\ UNCHANGED <<holdings, txlog>>
       ELSE LET symbol == ToSymbol(data.symbol)
                transaction_type == TypeOf(data.type)
                shares == ToInt(data.shares)
                price == ToFloat(data.price)
            IN  IF ~data.json \/ ~symbol.ok \/ ~shares.ok \/ ~price.ok
                THEN response' = JsonResponse(500, None) /\ UNCHANGED <<holdings, txlog>>
                ELSE IF \/ symbol.v = <<>>
                        \/ transaction_type = ""
                        \/ shares.v <= 0
                        \/ price.v.num <= 0
                THEN response' = JsonResponse(400, None) /\ UNCHANGED <<holdings, txlog>>
                ELSE IF transaction_type \notin {"buy", "sell"}
                THEN response' = JsonResponse(400, None) /\ UNCHANGED <<holdings, txlog>>
                ELSE ApplyTransaction(req.user_id, symbol.v, transaction_type,
                                      shares.v, price.v)
    /\ quoted' = {}
    /\ UNCHANGED <<rate_limit_storage, cacheVars, db, watchlists>>
    /\ restFrame

(***************************************************************************)
(* The REST routes under the requests of one client to one route, within   *)
(* one rate limit window (the clock stands still).                         *)
(***************************************************************************)
Endpoints ==
    {"health", "market_indices", "trending_stocks", "stock", "search", "portfolio",
     "transaction", "watchlist_get", "watchlist_post"}

RestTraffic == {[endpoint |-> e, req |-> r] : e \in Endpoints, r \in {Anonymous, User1}}

\* The users whose data a request names in its path.
PathUsers == {"u1", "u2"}

\* The requests of the run to the transaction route: a buy and a sell of one
\* share, and a request without shares.
FewTransactions ==
    {Body(JStr(<<"a", "a", "p", "l">>), JStr(<<"b", "u", "y">>), JInt(1), JInt(10)),
     Body(JStr(<<"a", "a", "p", "l">>), JStr(<<"s", "e", "l", "l">>), JInt(1), JInt(10)),
     Body(JStr(<<"a", "a", "p", "l">>), JStr(<<"b", "u", "y">>), JInt(0), JInt(10))}

\* Holdings the store has from earlier runs: u1 holds 2 AAPL, u2 holds 1 MSFT.
StoredHoldings ==
    (<<"u1", AAPL.v>> :> Holding(2, Rat(10, 1), Rat(20, 1)))
        @@ (<<"u2", MSFT.v>> :> Holding(1, Rat(20, 1), Rat(20, 1)))

\* The count of the requests of the run whose handler body was executed:
\* all but those answered 429 by rate_limit or 401 by require_auth.
Served ==
    burst' = [burst EXCEPT !.count = IF response'.status \in {429, 401}
                                     THEN @ ELSE @ + 1]

RestRequest(endpoint) == route.endpoint = endpoint /\ burst.count < MaxServed

RestHealth == RestRequest("health") /\ health_check(route.req) /\ Served

RestMarketIndices ==
    RestRequest("market_indices") /\ get_market_indices(route.req) /\ Served

RestTrending ==
    RestRequest("trending_stocks") /\ get_trending_stocks(route.req) /\ Served

RestStock ==
    /\ RestRequest("stock")
    /\ \E symbol \in {AAPL, aapl} : get_stock_data(route.req, symbol)
    /\ Served

RestSearch ==
    /\ RestRequest("search")
    /\ \E q \in Queries : search_stocks(route.req, q)
    /\ Served

RestPortfolio ==
    /\ RestRequest("portfolio")
    /\ \E user_id \in PathUsers : get_user_portfolio(route.req, user_id)
    /\ Served

RestTransaction ==
    /\ RestRequest("transaction")
    /\ \E data \in FewTransactions : execute_portfolio_transaction(route.req, data)
    /\ Served

RestWatchlistGet ==
    /\ RestRequest("watchlist_get")
    /\ \E user_id \in PathUsers : get_user_watchlist(route.req, user_id)
    /\ Served

RestWatchlistPost ==
    /\ RestRequest("watchlist_post")
    /\ \E user_id \in PathUsers, symbols \in WatchSymbols :
            update_user_watchlist(route.req, user_id, symbols)
    /\ Served

\* The routes that talk to the store.
StoreRoutes == {"portfolio", "transaction", "watchlist_get", "watchlist_post"}

InitREST ==
    /\ connected = {}
    /\ price_subscribers = EmptyMap
    /\ price_update_running = FALSE
    /\ wpc = "none"
    /\ wsymbols = {}
    /\ wsnapshot = {}
    /\ orphans = 0
    /\ updated_prices = EmptyMap
    /\ rate_limit_storage = NoStamps
    /\ now = 0
    /\ ticks = 0
    /\ cache = EmptyMap
    /\ emitted = <<>>
    /\ last = Op("start", None, NoDict)
    /\ response = Returned(0)
    /\ route \in RestTraffic
    /\ got = <<None, None>>
    /\ lastSet = EmptyMap
    /\ burst = NoBurst
    /\ tpc = EmptyMap
    /\ tnow = EmptyMap
    /\ tfiltered = EmptyMap
    /\ db \in (IF route.endpoint \in StoreRoutes THEN BOOLEAN ELSE {TRUE})
    /\ holdings \in (IF route.endpoint = "portfolio" THEN {EmptyMap, StoredHoldings}
                                                      ELSE {EmptyMap})
    /\ txlog = <<>>
    /\ watchlists = EmptyMap
    /\ quoted = {}
    /\ prior = holdings
    /\ tref = EmptyMap

NextREST ==
    \/ RestHealth
    \/ RestMarketIndices
    \/ RestTrending
    \/ RestStock
    \/ RestSearch
    \/ RestPortfolio
    \/ RestTransaction
    \/ RestWatchlistGet
    \/ RestWatchlistPost

SpecREST == InitREST /\ [][NextREST]_vars

(***************************************************************************)
(* The cached routes over time: one client asks one of the routes that     *)
(* keep their answer in the cache, while the clock moves past the life of  *)
(* an entry.                                                               *)
(***************************************************************************)
CachedEndpoints == {"market_indices", "trending_stocks", "stock"}

FreshRequest(endpoint) == route.endpoint = endpoint /\ burst.count < MaxFreshServed

FreshMarketIndices ==
    FreshRequest("market_indices") /\ get_market_indices(route.req) /\ Served

FreshTrending ==
    FreshRequest("trending_stocks") /\ get_trending_stocks(route.req) /\ Served

FreshStock ==
    /\ FreshRequest("stock")
    /\ \E symbol \in {AAPL, aapl, MSFT} : get_stock_data(route.req, symbol)
    /\ Served

InitFresh ==
    /\ connected = {}
    /\ price_subscribers = EmptyMap
    /\ price_update_running = FALSE
    /\ wpc = "none"
    /\ wsymbols = {}
    /\ wsnapshot = {}
    /\ orphans = 0
    /\ updated_prices = EmptyMap
    /\ rate_limit_storage = NoStamps
    /\ now = 0
    /\ ticks = 0
    /\ cache = EmptyMap
    /\ emitted = <<>>
    /\ last = Op("start", None, NoDict)
    /\ response = Returned(0)
    /\ route \in {[endpoint |-> e, req |-> Anonymous] : e \in CachedEndpoints}
    /\ got = <<None, None>>
    /\ lastSet = EmptyMap
    /\ burst = NoBurst
    /\ tpc = EmptyMap
    /\ tnow = EmptyMap
    /\ tfiltered = EmptyMap
    /\ tref = EmptyMap
    /\ db = TRUE
    /\ holdings = EmptyMap
    /\ txlog = <<>>
    /\ watchlists = EmptyMap
    /\ quoted = {}
    /\ prior = holdings

NextFresh ==
    \/ FreshMarketIndices
    \/ FreshTrending
    \/ FreshStock
    \/ CacheTick

SpecFresh == InitFresh /\ [][NextFresh]_vars

(***************************************************************************)
(* The transaction route under the requests of one signed-in client and of *)
(* an anonymous one, against a store that starts empty or with holdings.   *)
(***************************************************************************)
BuyType == JStr(<<"b", "u", "y">>)
SellType == JStr(<<"s", "e", "l", "l">>)
AaplField == JStr(<<"a", "a", "p", "l">>)

\* The request bodies of the run: buys and sells of one and two shares at
\* different prices, shares given as a float and as a string, a sell of a
\* symbol nobody bought, and bodies with data the handler rejects or cannot
\* convert.
TransactionData ==
    {Body(AaplField, BuyType, JInt(1), JInt(10)),
     Body(AaplField, BuyType, JInt(2), JFloat(5)),
     Body(AaplField, BuyType, JFloat(15), JInt(10)),
     Body(AaplField, SellType, JInt(1), JInt(20)),
     Body(AaplField, SellType, JStr(<<"2">>), JInt(10)),
     Body(JStr(<<"D", "J", "I">>), SellType, JInt(1), JInt(10)),
     Body(AaplField, BuyType, JInt(0), JInt(10)),
     Body(AaplField, BuyType, JInt(-1), JInt(10)),
     Body(AaplField, SellType, JInt(1), JInt(0)),
     Body(AaplField, JStr(<<"h", "o", "l", "d">>), JInt(1), JInt(10)),
     Body(AaplField, JMissing, JInt(1), JInt(10)),
     Body(JStr(<<>>), BuyType, JInt(1), JInt(10)),
     Body(JStr(<<>>), BuyType, JStr(<<"a", "b", "c">>), JInt(1)),
     Body(AaplField, BuyType, JNull, JInt(10)),
     NoBody}

StoreTransaction ==
    \E req \in {Anonymous, User1}, data \in TransactionData :
        /\ execute_portfolio_transaction(req, data)
        /\ UNCHANGED burst

InitStore ==
    /\ connected = {}
    /\ price_subscribers = EmptyMap
    /\ price_update_running = FALSE
    /\ wpc = "none"
    /\ wsymbols = {}
    /\ wsnapshot = {}
    /\ orphans = 0
    /\ updated_prices = EmptyMap
    /\ rate_limit_storage = NoStamps
    /\ now = 0
    /\ ticks = 0
    /\ cache = EmptyMap
    /\ emitted = <<>>
    /\ last = Op("start", None, NoDict)
    /\ response = Returned(0)
    /\ route = NoRoute
    /\ got = <<None, None>>
    /\ lastSet = EmptyMap
    /\ burst = NoBurst
    /\ tpc = EmptyMap
    /\ tnow = EmptyMap
    /\ tfiltered = EmptyMap
    /\ db \in BOOLEAN
    /\ holdings \in {EmptyMap, StoredHoldings}
    /\ txlog = <<>>
    /\ watchlists = EmptyMap
    /\ quoted = {}
    /\ prior = holdings
    /\ tref = EmptyMap

NextStore == StoreTransaction

SpecStore == InitStore /\ [][NextStore]_vars

(***************************************************************************)
(* The refresh cycles of the worker, step by step, for one subscription.   *)
(***************************************************************************)
InitQuote ==
    /\ connected = {"c1"}
    /\ price_subscribers = [symbol \in {AAPL} |-> {"c1"}]
    /\ price_update_running = TRUE
    /\ wpc = "loop"
    /\ wsymbols = {}
    /\ wsnapshot = {}
    /\ orphans = 0
    /\ updated_prices = EmptyMap
    /\ rate_limit_storage = NoStamps
    /\ now = 0
    /\ ticks = 0
    /\ cache = EmptyMap
    /\ emitted = <<>>
    /\ last = Op("start", None, NoDict)
    /\ response = Returned(0)
    /\ route = NoRoute
    /\ got = <<None, None>>
    /\ lastSet = EmptyMap
    /\ burst = NoBurst
    /\ tpc = EmptyMap
    /\ tnow = EmptyMap
    /\ tfiltered = EmptyMap
    /\ db = TRUE
    /\ holdings = EmptyMap
    /\ txlog = <<>>
    /\ watchlists = EmptyMap
    /\ quoted = {}
    /\ prior = holdings
    /\ tref = EmptyMap

NextQuote ==
    \/ WorkerLoop
    \/ WorkerFetch
    \/ WorkerBroadcast
    \/ WorkerWake

SpecQuote == InitQuote /\ [][NextQuote]_vars

(***************************************************************************)
(* The life of the worker: the events of one connection and the calls of   *)
(* stop_price_updates interleave with the steps of the refresh loop.  The  *)
(* clock stands still, so the rate limiter admits ten events.              *)
(***************************************************************************)
WorkerConn == "c1"

\* The payloads of the run: one symbol, the other one, and no list.
LifeSubscribes == {Dict("list", <<AAPL>>), Dict("list", <<MSFT>>), EmptyDict}
LifeUnsubscribes == {Dict("list", <<AAPL>>), Dict("list", <<MSFT>>)}

\* The histories of the run: no point, and the closes 100 and 105.
FewHists == {<<>>, <<100000, 105000>>}

LifeSubscribe == \E data \in LifeSubscribes : subscribe_prices(WorkerConn, data)
LifeUnsubscribe == \E data \in LifeUnsubscribes : unsubscribe_prices(WorkerConn, data)
LifeDisconnect == handle_disconnect(WorkerConn)
LifeConnect == handle_connect(WorkerConn)
LifeStop == stop_price_updates
LifeFetch == WorkerFetchFrom(FewHists)

InitWorker ==
    /\ connected = {WorkerConn}
    /\ price_subscribers = EmptyMap
    /\ price_update_running = FALSE
    /\ wpc = "none"
    /\ wsymbols = {}
    /\ wsnapshot = {}
    /\ orphans = 0
    /\ updated_prices = EmptyMap
    /\ rate_limit_storage = NoStamps
    /\ now = 0
    /\ ticks = 0
    /\ cache = EmptyMap
    /\ emitted = <<>>
    /\ last = Op("start", None, NoDict)
    /\ response = Returned(0)
    /\ route = NoRoute
    /\ got = <<None, None>>
    /\ lastSet = EmptyMap
    /\ burst = NoBurst
    /\ tpc = EmptyMap
    /\ tnow = EmptyMap
    /\ tfiltered = EmptyMap
    /\ db = TRUE
    /\ holdings = EmptyMap
    /\ txlog = <<>>
    /\ watchlists = EmptyMap
    /\ quoted = {}
    /\ prior = holdings
    /\ tref = EmptyMap

NextWorker ==
    \/ LifeConnect
    \/ LifeDisconnect
    \/ LifeSubscribe
    \/ LifeUnsubscribe
    \/ LifeStop
    \/ WorkerLoop
    \/ LifeFetch
    \/ WorkerBroadcast
    \/ WorkerWake

SpecWorker == InitWorker /\ [][NextWorker]_vars

\* The thread of the worker is scheduled, its fetches return or fail, its
\* emits return or raise, and its sleeps end.
WorkerFairness ==
    /\ WF_vars(WorkerLoop)
    /\ WF_vars(LifeFetch)
    /\ WF_vars(WorkerBroadcast)
    /\ WF_vars(WorkerWake)

SpecWorkerFair == SpecWorker /\ WorkerFairness

(***************************************************************************)
(* The registry under two events handled at once: the server runs each     *)
(* handler in a thread of its own, and the steps of the loops over the     *)
(* registry (lines 359-362, 397-400, 429-433) interleave.  Thread t1       *)
(* handles an event of c1, thread t2 one of c2, both about AAPL.           *)
(***************************************************************************)
SidOf(t) == IF t = "t1" THEN "c1" ELSE "c2"

\* Where a thread is: the event it handles and its position in the handler.
At(kind, pos) == [kind |-> kind, at |-> pos]
Idle == At("none", "idle")
Kinds == {"subscribe_prices", "unsubscribe_prices", "disconnect"}

\* The payload of the subscribe and unsubscribe events of the run.
OneSymbol == Dict("list", <<AAPL>>)

regFrame ==
    /\ prior' = holdings
    /\ quoted' = {}
    /\ UNCHANGED <<clockVars, cacheVars, route, burst, tnow, tfiltered, storeVars>>

\* The thread moves on; nothing but its position changes.
Goto(t, pos) == tpc' = [tpc EXCEPT ![t] = At(tpc[t].kind, pos)]

\* The sets the other threads loaded are no longer the registry's.
Orphan(t) == tref' = [u \in Threads |-> IF u = t THEN tref[u] ELSE FALSE]

\* except Exception: emit('error', ...) of the two decorated handlers; the
\* KeyError of handle_disconnect is raised to the server, nothing is emitted.
KeyError(t) ==
    /\ Goto(t, "failed")
    /\ emitted' =
            IF tpc[t].kind = "subscribe_prices"
            THEN Append(emitted, ErrorEvent(SidOf(t), "Subscription failed"))
            ELSE IF tpc[t].kind = "unsubscribe_prices"
            THEN Append(emitted, ErrorEvent(SidOf(t), "Unsubscription failed"))
            ELSE emitted
    /\ UNCHANGED <<price_subscribers, tref>>

\* The event arrives: the rate limiter and the checks of the payload run, up
\* to the loop over the symbols; a disconnect takes list(price_subscribers.keys()).
RegReceive(t) ==
    /\ tpc[t] = Idle
    /\ SidOf(t) \in connected
    /\ \E kind \in Kinds :
        /\ last' = Op(kind, SidOf(t), IF kind = "disconnect" THEN NoDict ELSE OneSymbol)
        /\ IF kind = "disconnect"
           THEN /\ connected' = connected \ {SidOf(t)}
                /\ tpc' = [tpc EXCEPT ![t] =
                            IF AAPL \in DOMAIN price_subscribers
                            THEN At(kind, "member") ELSE At(kind, "done")]
                /\ UNCHANGED <<rate_limit_storage, response>>
           ELSE /\ rate_limit("websocket", ConnRequest(SidOf(t)),
                              /\ tpc' = [tpc EXCEPT ![t] = At(kind, "test")]
                              /\ response' = Returned(0),
                              tpc' = [tpc EXCEPT ![t] = At(kind, "done")])
                /\ UNCHANGED connected
    /\ UNCHANGED <<price_subscribers, tref, emitted, price_update_running, workerVars>>
    /\ regFrame

\* A step inside a handler: the frame of all of them.
RegStep(t, kind, pos) ==
    /\ tpc[t].kind \in kind
    /\ tpc[t].at = pos
    /\ last' = Op(tpc[t].kind, SidOf(t), NoDict)
    /\ UNCHANGED <<connected, rate_limit_storage, response>>
    /\ regFrame

\* if symbol not in price_subscribers:
SubTest(t) ==
    /\ RegStep(t, {"subscribe_prices"}, "test")
    /\ Goto(t, IF AAPL \notin DOMAIN price_subscribers THEN "create" ELSE "load")
    /\ UNCHANGED <<price_subscribers, tref, emitted, price_update_running, workerVars>>

\* price_subscribers[symbol] = set()
SubCreate(t) ==
    /\ RegStep(t, {"subscribe_prices"}, "create")
    /\ price_subscribers' =
            [s \in DOMAIN price_subscribers \cup {AAPL} |->
                IF s = AAPL THEN {} ELSE price_subscribers[s]]
    /\ Orphan(t)
    /\ Goto(t, "load")
    /\ UNCHANGED <<emitted, price_update_running, workerVars>>

\* price_subscribers[symbol] of `price_subscribers[symbol].add(request.sid)`
SubLoad(t) ==
    /\ RegStep(t, {"subscribe_prices"}, "load")
    /\ IF AAPL \notin DOMAIN price_subscribers
       THEN KeyError(t)
       ELSE /\ tref' = [tref EXCEPT ![t] = TRUE]
            /\ Goto(t, "add")
            /\ UNCHANGED <<price_subscribers, emitted>>
    /\ UNCHANGED <<price_update_running, workerVars>>

\* .add(request.sid) on the set that was loaded
SubAdd(t) ==
    /\ RegStep(t, {"subscribe_prices"}, "add")
    /\ price_subscribers' =
            IF tref[t]
            THEN [price_subscribers EXCEPT ![AAPL] = @ \cup {SidOf(t)}]
            ELSE price_subscribers
    /\ Goto(t, "ack")
    /\ UNCHANGED <<tref, emitted, price_update_running, workerVars>>

\* if price_subscribers and not price_update_running: start_price_updates()
\* emit('subscribed', ...)
SubAck(t) ==
    /\ RegStep(t, {"subscribe_prices"}, "ack")
    /\ IF DOMAIN price_subscribers # {} /\ ~price_update_running
       THEN start_price_updates
       ELSE UNCHANGED <<price_update_running, workerVars>>
    /\ emitted' = Append(emitted, Ack("subscribed", SidOf(t), <<AAPL>>))
    /\ Goto(t, "done")
    /\ UNCHANGED <<price_subscribers, tref>>

\* if symbol in price_subscribers (unsubscribe_prices only)
RemTest(t) ==
    /\ RegStep(t, {"unsubscribe_prices"}, "test")
    /\ Goto(t, IF AAPL \in DOMAIN price_subscribers THEN "member" ELSE "ack")
    /\ UNCHANGED <<price_subscribers, tref, emitted, price_update_running, workerVars>>

\* request.sid in price_subscribers[symbol]
RemMember(t) ==
    /\ RegStep(t, {"unsubscribe_prices", "disconnect"}, "member")
    /\ IF AAPL \notin DOMAIN price_subscribers
       THEN KeyError(t)
       ELSE /\ Goto(t, IF SidOf(t) \in price_subscribers[AAPL] THEN "discard" ELSE "ack")
            /\ UNCHANGED <<price_subscribers, tref, emitted>>
    /\ UNCHANGED <<price_update_running, workerVars>>

\* price_subscribers[symbol].discard(request.sid)
RemDiscard(t) ==
    /\ RegStep(t, {"unsubscribe_prices", "disconnect"}, "discard")
    /\ IF AAPL \notin DOMAIN price_subscribers
       THEN KeyError(t)
       ELSE /\ price_subscribers' = [price_subscribers EXCEPT ![AAPL] = @ \ {SidOf(t)}]
            /\ Goto(t, "empty")
            /\ UNCHANGED <<tref, emitted>>
    /\ UNCHANGED <<price_update_running, workerVars>>

\* if not price_subscribers[symbol]:
RemEmpty(t) ==
    /\ RegStep(t, {"unsubscribe_prices", "disconnect"}, "empty")
    /\ IF AAPL \notin DOMAIN price_subscribers
       THEN KeyError(t)
       ELSE /\ Goto(t, IF price_subscribers[AAPL] = {} THEN "del" ELSE "ack")
            /\ UNCHANGED <<price_subscribers, tref, emitted>>
    /\ UNCHANGED <<price_update_running, workerVars>>

\* del price_subscribers[symbol]
RemDel(t) ==
    /\ RegStep(t, {"unsubscribe_prices", "disconnect"}, "del")
    /\ IF AAPL \notin DOMAIN price_subscribers
       THEN KeyError(t)
       ELSE /\ price_subscribers' = DelKey(price_subscribers, AAPL)
            /\ Orphan(t)
            /\ Goto(t, "ack")
            /\ UNCHANGED emitted
    /\ UNCHANGED <<price_update_running, workerVars>>

\* emit('unsubscribed', ...); handle_disconnect emits nothing
RemAck(t) ==
    /\ RegStep(t, {"unsubscribe_prices", "disconnect"}, "ack")
    /\ emitted' = IF tpc[t].kind = "unsubscribe_prices"
                  THEN Append(emitted, Ack("unsubscribed", SidOf(t), <<AAPL>>))
                  ELSE emitted
    /\ Goto(t, "done")
    /\ UNCHANGED <<price_subscribers, tref, price_update_running, workerVars>>

\* The registries the two events can find.
Registries ==
    {EmptyMap} \cup {[s \in {AAPL} |-> sids] : sids \in (SUBSET Conns) \ {{}}}

InitRegConc ==
    /\ connected = Conns
    /\ price_subscribers \in Registries
    /\ price_update_running = (price_subscribers # EmptyMap)
    /\ wpc = IF price_subscribers # EmptyMap THEN "loop" ELSE "none"
    /\ wsymbols = {}
    /\ wsnapshot = {}
    /\ orphans = 0
    /\ updated_prices = EmptyMap
    /\ rate_limit_storage = NoStamps
    /\ now = 0
    /\ ticks = 0
    /\ cache = EmptyMap
    /\ emitted = <<>>
    /\ last = Op("start", None, NoDict)
    /\ response = Returned(0)
    /\ route = NoRoute
    /\ got = <<None, None>>
    /\ lastSet = EmptyMap
    /\ burst = NoBurst
    /\ tpc = [t \in Threads |-> Idle]
    /\ tnow = [t \in Threads |-> 0]
    /\ tfiltered = [t \in Threads |-> <<>>]
    /\ db = TRUE
    /\ holdings = EmptyMap
    /\ txlog = <<>>
    /\ watchlists = EmptyMap
    /\ quoted = {}
    /\ prior = holdings
    /\ tref = [t \in Threads |-> TRUE]

NextRegConc ==
    \/ \E t \in Threads : RegReceive(t)
    \/ \E t \in Threads : SubTest(t)
    \/ \E t \in Threads : SubCreate(t)
    \/ \E t \in Threads : SubLoad(t)
    \/ \E t \in Threads : SubAdd(t)
    \/ \E t \in Threads : SubAck(t)
    \/ \E t \in Threads : RemTest(t)
    \/ \E t \in Threads : RemMember(t)
    \/ \E t \in Threads : RemDiscard(t)
    \/ \E t \in Threads : RemEmpty(t)
    \/ \E t \in Threads : RemDel(t)
    \/ \E t \in Threads : RemAck(t)

SpecRegConc == InitRegConc /\ [][NextRegConc]_vars

(***************************************************************************)
(* The start of the worker under two subscribe_prices events handled on    *)
(* two threads (lines 254-262, 402-406): the registry loop is one step,    *)
(* the tests and assignments of the start are steps of their own, and      *)
(* stop_price_updates is called at any time.                               *)
(***************************************************************************)
\* The worker threads that are alive: the one price_update_thread refers to
\* and those it referred to before it was assigned again.
WorkersAlive == (IF ThreadAlive THEN 1 ELSE 0) + orphans

\* The event arrives: the rate limiter, the checks of the payload and the
\* loop over the symbols run.
StartReceive(t) ==
    /\ tpc[t] = Idle
    /\ SidOf(t) \in connected
    /\ Len(rate_limit_storage["websocket"][Identifier(ConnRequest(SidOf(t)))])
            < MaxStartEvents
    /\ last' = Op("subscribe_prices", SidOf(t), OneSymbol)
    /\ rate_limit("websocket", ConnRequest(SidOf(t)),
                  /\ price_subscribers' =
                        SubscribeLoop(price_subscribers, <<AAPL>>, SidOf(t))
                  /\ tpc' = [tpc EXCEPT ![t] = At("subscribe_prices", "guard")]
                  /\ response' = Returned(0),
                  UNCHANGED <<price_subscribers, tpc>>)
    /\ UNCHANGED <<connected, tref, emitted, price_update_running, workerVars>>
    /\ regFrame

\* if price_subscribers and not price_update_running:
StartGuard(t) ==
    /\ RegStep(t, {"subscribe_prices"}, "guard")
    /\ Goto(t, IF DOMAIN price_subscribers # {} /\ ~price_update_running
               THEN "alive" ELSE "ack")
    /\ UNCHANGED <<price_subscribers, tref, emitted, price_update_running, workerVars>>

\* if price_update_thread is None or not price_update_thread.is_alive():
StartAlive(t) ==
    /\ RegStep(t, {"subscribe_prices"}, "alive")
    /\ Goto(t, IF ~ThreadAlive THEN "flag" ELSE "ack")
    /\ UNCHANGED <<price_subscribers, tref, emitted, price_update_running, workerVars>>

\* price_update_running = True
StartFlag(t) ==
    /\ RegStep(t, {"subscribe_prices"}, "flag")
    /\ price_update_running' = TRUE
    /\ Goto(t, "thread")
    /\ UNCHANGED <<price_subscribers, tref, emitted, workerVars>>

\* price_update_thread = threading.Thread(...); price_update_thread.start():
\* a thread the variable referred to goes on running when it is alive.
StartThread(t) ==
    /\ RegStep(t, {"subscribe_prices"}, "thread")
    /\ orphans' = IF ThreadAlive THEN orphans + 1 ELSE orphans
    /\ wpc' = "loop"
    /\ Goto(t, "ack")
    /\ UNCHANGED <<price_subscribers, tref, emitted, price_update_running,
                   wsymbols, wsnapshot, updated_prices>>

\* emit('subscribed', ...): the handler returns.
StartAck(t) ==
    /\ RegStep(t, {"subscribe_prices"}, "ack")
    /\ emitted' = <<Ack("subscribed", SidOf(t), <<AAPL>>)>>
    /\ tpc' = [tpc EXCEPT ![t] = Idle]
    /\ UNCHANGED <<price_subscribers, tref, price_update_running, workerVars>>

\* A whole cycle of a worker thread that price_update_thread has lost: it
\* runs the same loop on the same flag and registry.
OrphanCycle ==
    /\ orphans > 0
    /\ IF ~price_update_running
       THEN orphans' = orphans - 1 /\ quoted' = {} /\ UNCHANGED emitted
       ELSE /\ UNCHANGED orphans
            /\ quoted' = DOMAIN price_subscribers
            /\ \E fetched \in SUBSET DOMAIN price_subscribers :
                LET batch == [s \in fetched |-> PriceUpdate(s, <<100000, 105000>>)]
                IN  IF fetched # {}
                    THEN emitted' = <<Event("price_updates", BroadcastTo(batch),
                                            <<>>, "", batch)>>
                    ELSE UNCHANGED emitted
    /\ last' = Op("price_update_worker", None, NoDict)
    /\ UNCHANGED <<wpc, wsymbols, wsnapshot, updated_prices, price_update_running>>
    /\ workerFrame

InitStart ==
    /\ connected = Conns
    /\ price_subscribers = EmptyMap
    /\ price_update_running = FALSE
    /\ wpc = "none"
    /\ wsymbols = {}
    /\ wsnapshot = {}
    /\ orphans = 0
    /\ updated_prices = EmptyMap
    /\ rate_limit_storage = NoStamps
    /\ now = 0
    /\ ticks = 0
    /\ cache = EmptyMap
    /\ emitted = <<>>
    /\ last = Op("start", None, NoDict)
    /\ response = Returned(0)
    /\ route = NoRoute
    /\ got = <<None, None>>
    /\ lastSet = EmptyMap
    /\ burst = NoBurst
    /\ tpc = [t \in Threads |-> Idle]
    /\ tnow = [t \in Threads |-> 0]
    /\ tfiltered = [t \in Threads |-> <<>>]
    /\ db = TRUE
    /\ holdings = EmptyMap
    /\ txlog = <<>>
    /\ watchlists = EmptyMap
    /\ quoted = {}
    /\ prior = holdings
    /\ tref = [t \in Threads |-> TRUE]

NextStart ==
    \/ \E t \in Threads : StartReceive(t)
    \/ \E t \in Threads : StartGuard(t)
    \/ \E t \in Threads : StartAlive(t)
    \/ \E t \in Threads : StartFlag(t)
    \/ \E t \in Threads : StartThread(t)
    \/ \E t \in Threads : StartAck(t)
    \/ stop_price_updates
    \/ WorkerCycle
    \/ OrphanCycle

SpecStart == InitStart /\ [][NextStart]_vars

(***************************************************************************)
(* Properties of the registry.                                             *)
(***************************************************************************)
Member(subs, symbol, sid) == symbol \in DOMAIN subs /\ sid \in subs[symbol]

Keys == DOMAIN price_subscribers \cup DOMAIN price_subscribers'

\* The memberships of every connection but sid are the same before and after.
OthersUnchanged(sid) ==
    \A c \in Conns \ {sid}, s \in Keys :
        Member(price_subscribers', s, c) <=> Member(price_subscribers, s, c)

\* The number of recorded requests of the identifier inside the class's window.
StampsInWindow(limit_type, identifier) ==
    LET stamps == rate_limit_storage[limit_type][identifier]
    IN  Cardinality({i \in 1..Len(stamps) :
                        now - stamps[i] < RATE_LIMITS[limit_type].window})

\* The limiter has room for one more request of the identifier.
Admits(limit_type, identifier) ==
    StampsInWindow(limit_type, identifier) < RATE_LIMITS[limit_type].requests

EventAdmitted(sid) == Admits("websocket", Identifier(ConnRequest(sid)))

\* C1: no symbol of the registry maps to an empty set of connections.
C1_NoEmptyEntry ==
    \A s \in DOMAIN price_subscribers : price_subscribers[s] # {}

\* c1, the last subscriber of AAPL, has unsubscribed from it: the entry is gone.
C1_Witness ==
    /\ emitted = <<Ack("unsubscribed", "c1", <<AAPL>>)>>
    /\ DOMAIN price_subscribers = {MSFT}
    /\ price_subscribers[MSFT] = {"c1"}

\* C2: a disconnect of sid leaves sid in no subscriber set, leaves the
\* memberships of the other connections as they were, and leaves no active
\* symbol when sid was the only subscriber of every symbol.
C2_DisconnectReleases ==
    [][last'.op = "disconnect" =>
        /\ \A s \in DOMAIN price_subscribers' : last'.sid \notin price_subscribers'[s]
        /\ OthersUnchanged(last'.sid)
        /\ (\A s \in DOMAIN price_subscribers : price_subscribers[s] = {last'.sid})
                => DOMAIN price_subscribers' = {}]_vars

\* c1 alone holds AAPL and MSFT, and its disconnect empties the registry.
C2_Witness ==
    /\ DOMAIN price_subscribers = {AAPL, MSFT}
    /\ \A s \in {AAPL, MSFT} : price_subscribers[s] = {"c1"}
    /\ ENABLED (handle_disconnect("c1") /\ DOMAIN price_subscribers' = {})

\* The request's symbols value is a list.
IsList(data) == ~BadData(data) /\ GetSymbols(data).st = "list"

\* C3: a subscribe_prices request with more than 20 symbols, or with a symbol
\* outside the grammar, leaves the registry as it was, is answered with an
\* error event and gets no subscribed acknowledgement.
C3_RejectedAsAWhole ==
    [][(/\ last'.op = "subscribe_prices"
        /\ IsList(last'.data)
        /\ \/ Len(last'.data.items) > 20
           \/ \E i \in 1..Len(last'.data.items) : ~InGrammar(last'.data.items[i]))
        => /\ price_subscribers' = price_subscribers
           /\ Len(emitted') = 1
           /\ emitted'[1].event = "error"
           /\ emitted'[1].to = {last'.sid}]_vars

\* A request of 1 to 20 symbols that all match the grammar.
ValidRequest(data) ==
    /\ IsList(data)
    /\ Len(data.items) \in 1..20
    /\ \A i \in 1..Len(data.items) : InGrammar(data.items[i])

\* The subscription of sid to the listed symbols is applied and acknowledged.
SubscriptionApplied(sid, data) ==
    /\ \A s \in Range(data.items) : Member(price_subscribers', s, sid)
    /\ OthersUnchanged(sid)
    /\ emitted' = <<Ack("subscribed", sid, data.items)>>

\* C4, as stated: every valid subscribe_prices request is applied and
\* acknowledged.
C4_ValidRequestApplied ==
    [][(last'.op = "subscribe_prices" /\ ValidRequest(last'.data))
            => SubscriptionApplied(last'.sid, last'.data)]_vars

\* C4, amended: every valid subscribe_prices request that the rate limiter
\* admits is applied and acknowledged.
C4_AdmittedRequestApplied ==
    [][(last'.op = "subscribe_prices" /\ ValidRequest(last'.data)
            /\ EventAdmitted(last'.sid))
            => SubscriptionApplied(last'.sid, last'.data)]_vars

\* c1 is acknowledged for MSFT and AAPL while c2 holds AAPL too.
C4_Witness ==
    /\ emitted = <<Ack("subscribed", "c1", <<MSFT, AAPL>>)>>
    /\ DOMAIN price_subscribers = {AAPL, MSFT}
    /\ price_subscribers[AAPL] = {"c1", "c2"}
    /\ price_subscribers[MSFT] = {"c1"}

\* The request lists strings only.
ListOfStrings(data) ==
    IsList(data) /\ \A i \in 1..Len(data.items) : data.items[i].t = "str"

\* sid is removed from the listed symbols, and nothing else changes.
UnsubscriptionApplied(sid, data) ==
    /\ \A s \in Range(data.items) : ~Member(price_subscribers', s, sid)
    /\ \A s \in Keys \ Range(data.items) :
            Member(price_subscribers', s, sid) <=> Member(price_subscribers, s, sid)
    /\ OthersUnchanged(sid)

\* C5, as stated: every unsubscribe_prices request removes sid from the
\* listed symbols and changes nothing else.
C5_UnsubscribeRemoves ==
    [][(last'.op = "unsubscribe_prices" /\ ListOfStrings(last'.data))
            => UnsubscriptionApplied(last'.sid, last'.data)]_vars

\* C5, amended: every unsubscribe_prices request that the rate limiter admits
\* removes sid from the listed symbols and changes nothing else.
C5_AdmittedUnsubscribeRemoves ==
    [][(last'.op = "unsubscribe_prices" /\ ListOfStrings(last'.data)
            /\ EventAdmitted(last'.sid))
            => UnsubscriptionApplied(last'.sid, last'.data)]_vars

\* c1 has unsubscribed from AAPL: it keeps MSFT, and c2 keeps AAPL.
C5_Witness ==
    /\ emitted = <<Ack("unsubscribed", "c1", <<AAPL>>)>>
    /\ DOMAIN price_subscribers = {AAPL, MSFT}
    /\ price_subscribers[AAPL] = {"c2"}
    /\ price_subscribers[MSFT] = {"c1", "c2"}

\* C6: a price_updates event reaches a connection only with updates of
\* symbols the connection is subscribed to.
C6_OnlySubscribersReceive ==
    \A i \in 1..Len(emitted) :
        emitted[i].event = "price_updates" =>
            \A c \in emitted[i].to, s \in DOMAIN emitted[i].batch :
                Member(price_subscribers, s, c)

(***************************************************************************)
(* Properties of the cache and of the rate limiter.                        *)
(***************************************************************************)
\* C7: get_cached_data(k) returns the data of the latest set_cached_data(k, v)
\* while less than 300 seconds have passed since it, and absent otherwise
\* (never set, or 300 seconds or more old).
C7_CacheWithinTTL ==
    [][last'.op = "get_cached_data" =>
        LET key == got'[1]
        IN  got'[2] = IF key \in DOMAIN lastSet /\ now - lastSet[key][2] < 300
                      THEN lastSet[key][1]
                      ELSE None]_vars

\* A lookup exactly 300 seconds after the set finds the entry expired.
C7_Witness ==
    /\ last.op = "get_cached_data"
    /\ got = <<"market_indices", None>>
    /\ "market_indices" \in DOMAIN lastSet
    /\ now - lastSet["market_indices"][2] = 300

\* The steps that are requests through the rate limiter.
IsLimitedRequest(op, resp) ==
    /\ op \in {"subscribe_prices", "unsubscribe_prices", "get_market_indices",
               "get_user_portfolio"}
    /\ resp.status # 401

\* C8: a request that finds the window empty is allowed; in a burst that
\* started from an empty window less than a window ago, requests 1..N are
\* allowed and the requests after them are denied.
C8_WindowContract ==
    [][IsLimitedRequest(last'.op, response') =>
        LET allowed == response'.status # 429
        IN  /\ WindowEmpty => allowed
            /\ (~WindowEmpty /\ now - burst.start < RouteLimit.window)
                => (allowed <=> burst.count < RouteLimit.requests)]_vars

\* Request 121 of a user, 59 seconds after the first, is denied.
C8_Witness ==
    /\ route.endpoint = "portfolio"
    /\ last.op = "get_user_portfolio"
    /\ response.status = 429
    /\ burst = [start |-> 0, count |-> 121, lastAllowed |-> 0]
    /\ now = 59

\* C9: for every class and identifier, the recorded timestamps inside the
\* window never outnumber the class's maximum.
C9_WindowNeverExceedsMax ==
    \A lt \in LimitTypes, id \in Identifiers :
        StampsInWindow(lt, id) <= RATE_LIMITS[lt].requests

\* C10: a request the limiter denies returns 429 with the error and a
\* retryAfter equal to the window of its class, and its body is not run: the
\* registry and the cache stay as they are and nothing is emitted.
C10_DeniedBodySkipped ==
    [][(/\ IsLimitedRequest(last'.op, response')
        /\ ~Admits(LimitTypeOf(route.endpoint), Identifier(route.req)))
        => /\ response' = [status |-> 429, error |-> "Rate limit exceeded",
                           retryAfter |-> RouteLimit.window]
           /\ price_subscribers' = price_subscribers
           /\ cache' = cache
           /\ got' = got
           /\ emitted' = <<>>]_vars

\* Request 61 to market-indices is denied before any index was cached.
C10_Witness ==
    /\ last.op = "get_market_indices"
    /\ response.status = 429
    /\ DOMAIN cache = {}
    /\ Len(rate_limit_storage["default"][Identifier(route.req)]) = 60

(***************************************************************************)
(* Properties of the REST routes.                                          *)
(***************************************************************************)
\* C11: every REST route is rate limited: of the requests a client sends to
\* a route within one window, at most 120 (the largest maximum of a limit
\* class) have the handler body executed; the others are answered 429.
C11_EveryRouteLimited ==
    burst.count <= 120

(***************************************************************************)
(* Properties of the websocket events.                                     *)
(***************************************************************************)
\* C12: every connect is answered with a connected event whose authenticated
\* flag tells whether the token was verified to a user id, and with no error
\* event.
C12_ConnectedEvent ==
    [][last'.op = "connect" =>
        /\ Len(emitted') = 1
        /\ emitted'[1].event = "connected"
        /\ emitted'[1].to = {last'.sid}
        /\ emitted'[1].message =
                (IF last'.data.uid # None THEN "authenticated" ELSE "anonymous")]_vars

\* C13: every subscribe_prices or unsubscribe_prices event is answered with
\* exactly one event to its sender: the acknowledgement when it was applied,
\* an error event when it was not, whatever the reason.
C13_EveryEventAnswered ==
    [][last'.op \in {"subscribe_prices", "unsubscribe_prices"} =>
        /\ Len(emitted') = 1
        /\ emitted'[1].to = {last'.sid}
        /\ emitted'[1].event \in
                {"error", IF last'.op = "subscribe_prices" THEN "subscribed"
                          ELSE "unsubscribed"}]_vars

\* The request of the step: its verified identity and the user of its path.
Caller == last'.sid
PathUser == last'.data

\* The response returns holdings, and only holdings of the caller.
OwnHoldingsOnly ==
    response'.status = 200 =>
        /\ Caller = PathUser
        /\ response'.body.userId = Caller
        /\ \A symbol \in response'.body.symbols : <<Caller, symbol>> \in DOMAIN holdings

\* C14, as stated: a portfolio request without verified identity is answered
\* 401, one whose identity differs from the user of the path 403, and
\* holdings are returned only to the user they belong to.
C14_PortfolioAuthorized ==
    [][last'.op = "get_user_portfolio" =>
        /\ Caller = None => response'.status = 401
        /\ (Caller # None /\ Caller # PathUser) => response'.status = 403
        /\ OwnHoldingsOnly]_vars

\* C14, amended: the 403 is the answer when the rate limiter admits the
\* request and the database client exists; a request of another user is
\* answered 403, 429 or 500, never with holdings.
C14_PortfolioAuthorizedWhenAdmitted ==
    [][last'.op = "get_user_portfolio" =>
        /\ Caller = None => response'.status = 401
        /\ (Caller # None /\ Caller # PathUser) =>
                /\ response'.status \in {403, 429, 500}
                /\ (db /\ Admits("authenticated", Caller)) => response'.status = 403
        /\ OwnHoldingsOnly]_vars

\* u1 got its own AAPL holding while the store holds MSFT of u2.
C14_Witness ==
    /\ last.op = "get_user_portfolio"
    /\ last.sid = "u1"
    /\ response.status = 200
    /\ response.body = [userId |-> "u1", symbols |-> {AAPL.v}]
    /\ <<"u2", MSFT.v>> \in DOMAIN holdings

(***************************************************************************)
(* Properties of the transaction route.                                    *)
(***************************************************************************)
\* The transaction a step asked for, as the handler reads it.
IsTransaction(op) == op.op = "execute_portfolio_transaction"
Accepted(op, resp) == IsTransaction(op) /\ resp.status = 200
TxnKey(op) == <<op.sid, ToSymbol(op.data.symbol).v>>
TxnType(op) == TypeOf(op.data.type)
TxnShares(op) == ToInt(op.data.shares).v

\* C15: a buy of n shares of a symbol the user does not hold, followed by a
\* sell of n shares of it, leaves no holding of the symbol; a sell of all the
\* shares of a holding deletes it; every stored holding has shares > 0.
C15_SellOfAllDeletes ==
    /\ [](\A key \in DOMAIN holdings : holdings[key].shares > 0)
    /\ [][(/\ Accepted(last, response)
           /\ TxnType(last) = "buy"
           /\ TxnKey(last) \notin DOMAIN prior
           /\ Accepted(last', response')
           /\ TxnType(last') = "sell"
           /\ TxnKey(last') = TxnKey(last)
           /\ TxnShares(last') = TxnShares(last))
          => TxnKey(last) \notin DOMAIN holdings']_vars
    /\ [][(/\ Accepted(last', response')
           /\ TxnType(last') = "sell"
           /\ TxnKey(last') \in DOMAIN holdings
           /\ holdings[TxnKey(last')].shares = TxnShares(last'))
          => TxnKey(last') \notin DOMAIN holdings']_vars

\* u1 bought two shares at 0.5 and sold two at 10: the store is empty again.
C15_Witness ==
    /\ Accepted(last, response)
    /\ TxnType(last) = "sell"
    /\ Len(txlog) = 2
    /\ txlog[1].type = "buy" /\ txlog[2].type = "sell"
    /\ txlog[1].shares = 2 /\ txlog[2].shares = 2
    /\ txlog[1].price # txlog[2].price
    /\ prior = (<<"u1", AAPL.v>> :> Holding(2, Rat(1, 2), Rat(1, 1)))
    /\ holdings = EmptyMap

\* The data the handler has to reject: an empty symbol, a type other than
\* buy and sell, shares <= 0 or a price <= 0.
InvalidData(data) ==
    /\ data.json
    /\ \/ ToSymbol(data.symbol) = Value(<<>>)
       \/ TypeOf(data.type) \notin {"buy", "sell"}
       \/ ToInt(data.shares).ok /\ ToInt(data.shares).v <= 0
       \/ ToFloat(data.price).ok /\ ToFloat(data.price).v.num <= 0

\* A sell of a symbol the user does not hold, or of more shares than held.
OverSelling(op) ==
    /\ ~InvalidData(op.data)
    /\ op.data.json
    /\ TxnType(op) = "sell"
    /\ ToSymbol(op.data.symbol).ok /\ ToInt(op.data.shares).ok /\ ToFloat(op.data.price).ok
    /\ \/ TxnKey(op) \notin DOMAIN holdings
       \/ holdings[TxnKey(op)].shares < TxnShares(op)

\* C16: a signed-in user's transaction with invalid data is answered 400, an
\* over-selling one 400 (500 when the store fails); the holdings are then
\* unchanged; no holding ever has a negative share count.
C16_InvalidDataAnswered400 ==
    /\ [](\A key \in DOMAIN holdings : holdings[key].shares >= 0)
    /\ [][(IsTransaction(last') /\ db /\ last'.sid # None) =>
            /\ InvalidData(last'.data) =>
                    response'.status = 400 /\ holdings' = holdings
            /\ OverSelling(last') =>
                    response'.status \in {400, 500} /\ holdings' = holdings]_vars

(***************************************************************************)
(* Properties of the refresh cycle.                                        *)
(***************************************************************************)
\* The worker fetched a history with points in this step.
FetchedPoints == last'.op = "ticker.history" /\ last'.data.ok /\ Len(last'.data.hist) > 0
c_first == last'.data.hist[1]
c_last == last'.data.hist[Len(last'.data.hist)]
Update == updated_prices'[last'.sid]

\* x is an integer nearest to n / d, for d > 0
Nearest(x, n, d) == 2 * (x * d - n) <= d /\ 2 * (n - x * d) <= d

\* C17, as stated: price = c_last, change = c_last - c_first, changePercent =
\* (c_last - c_first) / c_first * 100, or 0 when c_first = 0; closes
\* [100, 105] give price 105, change 5 and changePercent 4.76.
C17_UpdateAsStated ==
    [][FetchedPoints =>
        /\ 10 * Update.price = c_last
        /\ 10 * Update.change = c_last - c_first
        /\ c_first = 0 => Update.changePercent = 0
        /\ c_first # 0 => Update.changePercent * c_first = (c_last - c_first) * 10000
        /\ last'.data.hist = <<100000, 105000>> =>
                Update.price = 10500 /\ Update.change = 500 /\ Update.changePercent = 476]_vars

\* C17, amended: the three values are those of the formulas rounded to the
\* nearest hundredth, changePercent is 0 when c_first = 0, and closes
\* [100, 105] give price 105, change 5 and changePercent 5.
C17_UpdateRounded ==
    [][FetchedPoints =>
        /\ Update.symbol = last'.sid
        /\ Nearest(Update.price, c_last, 10)
        /\ Nearest(Update.change, c_last - c_first, 10)
        /\ c_first = 0 => Update.changePercent = 0
        /\ c_first # 0 => Nearest(Update.changePercent, (c_last - c_first) * 10000, c_first)
        /\ last'.data.hist = <<100000, 105000>> =>
                Update.price = 10500 /\ Update.change = 500 /\ Update.changePercent = 500]_vars

\* The closes [100, 105] were fetched: the update says 105, 5 and 5 percent.
C17_Witness ==
    /\ last.op = "ticker.history"
    /\ last.data = Fetched(<<100000, 105000>>)
    /\ updated_prices[AAPL] =
            [symbol |-> AAPL, price |-> 10500, change |-> 500, changePercent |-> 500]

(***************************************************************************)
(* Properties of the search route.                                         *)
(***************************************************************************)
\* The query of the step as the handler compares it, and the symbols of the
\* array it returned.
SearchQuery == NormalQuery(last'.data)
Found == response'.body

\* C18: in the array a search returns, the results whose symbol equals the
\* query precede those whose symbol starts with it, which precede those whose
\* symbol only contains it.
C18_RankedByRelevance ==
    [][(last'.op = "search_stocks" /\ response'.status = 200) =>
        \A i, j \in 1..Len(Found) :
            /\ (Found[i] = SearchQuery /\ Found[j] # SearchQuery) => i < j
            /\ (StartsWith(Found[i], SearchQuery) /\ ~StartsWith(Found[j], SearchQuery))
                    => i < j]_vars

\* The search for C found ORCL, CRM and C in the list: C comes first, ORCL last.
C18_Witness ==
    /\ last.op = "search_stocks"
    /\ last.data = Arg(<<"C">>)
    /\ response.status = 200
    /\ response.body = <<CSym, CSym, CRM, ORCL>>

\* A request without q, or with a q of spaces only.
EmptyQuery(q) == ~q.has \/ \A i \in 1..Len(q.v) : q.v[i] = " "

\* C19, as stated: a search with an empty query returns the empty array, a
\* success, and does not ask the quote source.
C19_EmptyQueryEmptyArray ==
    [][(last'.op = "search_stocks" /\ EmptyQuery(last'.data)) =>
            response' = JsonResponse(200, <<>>) /\ quoted' = {}]_vars

\* C19, amended: so it is for the requests the rate limiter admits; the
\* others are answered 429, also without a call of the quote source.
C19_AdmittedEmptyQueryEmptyArray ==
    [][(last'.op = "search_stocks" /\ EmptyQuery(last'.data)) =>
            /\ quoted' = {}
            /\ IF Admits("default", Identifier(route.req))
               THEN response' = JsonResponse(200, <<>>)
               ELSE response'.status = 429]_vars

\* A search of spaces only was answered with the empty array.
C19_Witness ==
    /\ last.op = "search_stocks"
    /\ last.data = Arg(<<" ", " ">>)
    /\ response = JsonResponse(200, <<>>)
    /\ quoted = {}

(***************************************************************************)
(* Properties of the registry under concurrent events.                     *)
(***************************************************************************)
\* Both events have been handled to their end without an exception.
BothHandled == \A t \in Threads : tpc[t].at = "done"

\* The registry after the two events one after the other, in either order:
\* an event touches only the membership of its own connection, so the
\* subscribing connections are in the entry of AAPL and no other is, and the
\* entry does not exist when nobody is.
SerialOutcome ==
    LET subscribers == {SidOf(t) : t \in {u \in Threads :
                                            tpc[u].kind = "subscribe_prices"}}
    IN  IF subscribers = {} THEN EmptyMap ELSE [s \in {AAPL} |-> subscribers]

\* C20: when concurrently handled subscribe, unsubscribe and disconnect
\* events of different connections have ended (none with an exception), the
\* registry is the one of a serial execution of the events; an acknowledged
\* subscription is in it.
C20_Serializable ==
    BothHandled =>
        /\ price_subscribers = SerialOutcome
        /\ \A t \in Threads :
                tpc[t] = At("subscribe_prices", "done") =>
                    Member(price_subscribers, AAPL, SidOf(t))

(***************************************************************************)
(* Properties of the life of the worker.                                   *)
(***************************************************************************)
\* A refresh loop is polling: its thread is alive and the flag it tests at
\* the head of each cycle is set.
Polling == ThreadAlive /\ price_update_running

\* The latest step was a subscribe_prices event, acknowledged or not.
SubscribeAccepted ==
    /\ last.op = "subscribe_prices"
    /\ Len(emitted) = 1
    /\ emitted[1].event = "subscribed"
SubscribeRejected == last.op = "subscribe_prices" /\ ~SubscribeAccepted

\* C21: after every accepted subscribe_prices event a refresh loop is
\* polling, whatever subscribe, unsubscribe, disconnect and
\* stop_price_updates events came before; a rejected one starts no loop.
C21_AcceptedSubscriptionPolls ==
    /\ [](SubscribeAccepted => Polling)
    /\ [][SubscribeRejected' => UNCHANGED <<wpc, price_update_running>>]_vars

\* C22: the worker ends only when it finds the flag cleared, and only
\* stop_price_updates clears the flag; as long as the flag stays set the
\* loop comes back to the head of a cycle again and again, also with an
\* empty registry, after failed fetches and after top-level exceptions.
C22_LoopNeverIdles ==
    /\ [][(wpc # "exit" /\ wpc' = "exit") => ~price_update_running]_vars
    /\ [][(price_update_running /\ ~price_update_running') =>
            last'.op = "stop_price_updates"]_vars
    /\ (<>[]Polling) => []<>(wpc = "loop")

\* The worker found the registry empty after an unsubscription and sleeps
\* until its next cycle.
C22_Witness ==
    /\ wpc = "sleep30"
    /\ price_subscribers = EmptyMap
    /\ price_update_running
    /\ last.op = "price_update_worker"
    /\ Len(emitted) = 1 /\ emitted[1].event = "unsubscribed"

\* The fetch of the step gave no update: it raised, or the history is empty.
FetchStep == last'.op = "ticker.history"
NoUpdate == ~last'.data.ok \/ Len(last'.data.hist) = 0

\* The worker ends the for loop of a cycle in this step.
EndsFetching == wpc = "fetch" /\ wpc' # "fetch"

\* C23: a fetch that fails or gives an empty history drops its symbol only:
\* the batch so far and the symbols still to fetch stay, the cycle goes on;
\* a successful fetch adds its symbol to the batch; the for loop ends when
\* every symbol of the snapshot was fetched, and what is broadcast then is
\* the batch of all the successful fetches.
C23_BadSymbolOnlyDropped ==
    /\ [](wpc = "fetch" =>
            /\ wsymbols \subseteq wsnapshot
            /\ DOMAIN updated_prices \subseteq wsnapshot \ wsymbols)
    /\ [][FetchStep =>
            /\ wpc' = "fetch" /\ price_update_running' = price_update_running
            /\ wsymbols' = wsymbols \ {last'.sid}
            /\ wsnapshot' = wsnapshot
            /\ \A s \in DOMAIN updated_prices \ {last'.sid} :
                    s \in DOMAIN updated_prices' /\ updated_prices'[s] = updated_prices[s]
            /\ IF NoUpdate
               THEN updated_prices' = updated_prices
               ELSE last'.sid \in DOMAIN updated_prices']_vars
    /\ [][EndsFetching =>
            /\ wsymbols = {}
            /\ wpc' \in {"sleep30", "sleep60"}
            /\ emitted' # emitted => emitted'[1].batch = updated_prices]_vars

\* Of the snapshot AAPL and MSFT only MSFT was fetched with success: the
\* batch with MSFT alone was broadcast.
C23_Witness ==
    /\ wpc = "sleep30"
    /\ wsnapshot = {AAPL, MSFT}
    /\ Len(emitted) = 1
    /\ emitted[1].event = "price_updates"
    /\ DOMAIN emitted[1].batch = {MSFT}

\* A step of the worker that is not a fetch: the loop test, the end of the
\* for loop or the end of a sleep.
WorkerStep == last'.op = "price_update_worker"

\* C24: a price_updates event never carries an empty batch; the worker emits
\* only at the end of the for loop and only with at least one update; a cycle
\* that finds the registry empty fetches nothing and goes to sleep without a
\* broadcast, and so does a cycle whose fetches all gave no update.
C24_NoEmptyBroadcast ==
    /\ [](\A i \in 1..Len(emitted) :
            emitted[i].event = "price_updates" => DOMAIN emitted[i].batch # {})
    /\ [][(WorkerStep /\ emitted' # emitted) =>
            /\ EndsFetching
            /\ DOMAIN updated_prices # {}
            /\ emitted'[1].event = "price_updates"]_vars
    /\ [][(WorkerStep /\ wpc = "loop" /\ price_update_running
                /\ price_subscribers = EmptyMap) =>
            /\ wpc' = "sleep30"
            /\ quoted' = {}
            /\ emitted' = emitted]_vars
    /\ [][FetchStep => wsnapshot # {} /\ emitted' = emitted]_vars
    /\ [][(EndsFetching /\ DOMAIN updated_prices = {}) =>
            wpc' = "sleep30" /\ emitted' = emitted]_vars

\* A cycle over AAPL whose only fetch gave no update has gone to sleep, and no
\* price_updates event is out.
C24_Witness ==
    /\ wpc = "sleep30"
    /\ last.op = "price_update_worker"
    /\ wsnapshot = {AAPL}
    /\ DOMAIN updated_prices = {}
    /\ \A i \in 1..Len(emitted) : emitted[i].event # "price_updates"

\* The worker takes the snapshot of a cycle in this step.
TakesSnapshot == wpc = "loop" /\ wpc' = "fetch"

\* A step of a websocket handler.
HandlerStep ==
    last'.op \in {"connect", "disconnect", "subscribe_prices", "unsubscribe_prices"}

\* C25: the snapshot of a cycle is the set of keys of the registry when the
\* cycle begins; every fetch of the cycle is of a symbol of the snapshot and
\* the batch holds symbols of the snapshot only; a handler that runs while
\* the worker is in its for loop changes neither the snapshot nor the symbols
\* left to fetch, and the handlers of a connected client can run in every
\* state of the for loop.
C25_SnapshotSemantics ==
    /\ [][TakesSnapshot => wsnapshot' = DOMAIN price_subscribers]_vars
    /\ [][~TakesSnapshot => wsnapshot' = wsnapshot]_vars
    /\ [][FetchStep => last'.sid \in wsnapshot /\ quoted' = {last'.sid}]_vars
    /\ [](wpc = "fetch" => DOMAIN updated_prices \subseteq wsnapshot)
    /\ [][(EndsFetching /\ emitted' # emitted) =>
            DOMAIN emitted'[1].batch \subseteq wsnapshot]_vars
    /\ [][(HandlerStep /\ wpc = "fetch") =>
            UNCHANGED <<wpc, wsymbols, wsnapshot, updated_prices>>]_vars
    /\ []((wpc = "fetch" /\ WorkerConn \in connected) =>
            /\ ENABLED LifeSubscribe
            /\ ENABLED LifeUnsubscribe
            /\ ENABLED LifeDisconnect)

\* MSFT was subscribed while the cycle over AAPL was fetching: the cycle has
\* broadcast AAPL alone, and MSFT is in the registry for the next snapshot.
C25_Witness ==
    /\ wpc = "sleep30"
    /\ wsnapshot = {AAPL}
    /\ MSFT \in DOMAIN price_subscribers
    /\ Len(emitted) = 1
    /\ emitted[1].event = "price_updates"
    /\ DOMAIN emitted[1].batch = {AAPL}

\* subscribe_prices has just acknowledged symbol s, and s is in the registry.
AcceptedSymbol(s) ==
    /\ SubscribeAccepted
    /\ s \in Range(emitted[1].symbols)
    /\ s \in DOMAIN price_subscribers

\* The worker has just taken a snapshot that holds s.
InFreshSnapshot(s) ==
    wpc = "fetch" /\ wsymbols = wsnapshot /\ s \in wsnapshot

NeverStopped == [](last.op # "stop_price_updates")

\* C26: when stop_price_updates is never called and the worker's steps are
\* taken (each fetch ends), a symbol that subscribe_prices acknowledged is
\* later in a snapshot the worker takes, unless it left the registry before;
\* every snapshot taken while the symbol is subscribed holds it, so the first
\* cycle that begins after the subscription is that cycle.
C26_SubscribedSymbolPolled ==
    /\ [][\A s \in {AAPL, MSFT} :
            (TakesSnapshot /\ s \in DOMAIN price_subscribers) =>
                s \in wsnapshot']_vars
    /\ NeverStopped =>
            \A s \in {AAPL, MSFT} :
                AcceptedSymbol(s) ~>
                    (InFreshSnapshot(s) \/ s \notin DOMAIN price_subscribers)

\* The worker, never stopped, has taken a snapshot with both symbols while
\* the latest subscription was for one of them.
C26_Witness ==
    /\ price_update_running
    /\ InFreshSnapshot(AAPL)
    /\ InFreshSnapshot(MSFT)
    /\ last.op = "price_update_worker"
    /\ Len(emitted) = 1
    /\ emitted[1].event = "subscribed"
    /\ Len(emitted[1].symbols) = 1

\* stop_price_updates was called and the thread that saw the flag up lives.
Stopping == ThreadAlive /\ ~price_update_running

\* C27: while the stopped worker lives the flag stays down; the worker takes
\* no snapshot with the flag down, and its loop test with the flag down ends
\* it; with the worker's steps taken, a stop called while the worker lives is
\* followed by the end of the worker.
C27_CooperativeStop ==
    /\ [][Stopping => ~price_update_running']_vars
    /\ [][Stopping => ~TakesSnapshot]_vars
    /\ [][(Stopping /\ wpc = "loop" /\ WorkerStep) => wpc' = "exit"]_vars
    /\ (last.op = "stop_price_updates" /\ ThreadAlive) ~> (wpc = "exit")

\* The worker has ended at its loop test after a stop that came during a
\* cycle over MSFT; the cycle was completed, with its broadcast.
C27_Witness ==
    /\ wpc = "exit"
    /\ last.op = "price_update_worker"
    /\ ~price_update_running
    /\ wsnapshot = {MSFT}
    /\ Len(emitted) = 1
    /\ emitted[1].event = "price_updates"

\* The cycle of this step raised outside the per-symbol try: the except
\* clause of the while loop takes over.
CycleRaises == wpc # "sleep60" /\ wpc' = "sleep60"

\* C28: an exception of the cycle outside the per-symbol try is raised by
\* the emit at the end of the for loop; it leaves the worker alive in the
\* 60 second sleep and changes neither the registry nor the flag, and nothing
\* is emitted; the 60 second sleep ends at the loop test, which begins another
\* cycle unless the flag is down; no step of the worker changes the registry.
C28_BackOffAfterException ==
    /\ [][CycleRaises =>
            /\ WorkerStep /\ EndsFetching
            /\ DOMAIN updated_prices # {}
            /\ UNCHANGED <<price_subscribers, price_update_running, emitted>>]_vars
    /\ [](wpc = "sleep60" => ThreadAlive)
    /\ [][(wpc = "sleep60" /\ wpc' # wpc) => WorkerStep /\ wpc' = "loop"]_vars
    /\ [][(WorkerStep /\ wpc = "loop" /\ price_update_running) =>
            wpc' \in {"fetch", "sleep30"}]_vars
    /\ [][(WorkerStep \/ FetchStep) => UNCHANGED price_subscribers]_vars
    /\ (wpc = "sleep60") ~> (wpc = "loop")
    /\ NeverStopped =>
            ((wpc = "sleep60" /\ price_subscribers # EmptyMap) ~>
                (wpc = "fetch" \/ price_subscribers = EmptyMap))

\* The emit of a cycle over AAPL raised: the worker waits 60 seconds with the
\* batch it could not send, and the registry still holds AAPL.
C28_Witness ==
    /\ wpc = "sleep60"
    /\ last.op = "price_update_worker"
    /\ DOMAIN updated_prices = {AAPL}
    /\ AAPL \in DOMAIN price_subscribers
    /\ price_update_running

\* A request to /api/stock/<symbol> whose symbol is outside the pattern of
\* ValidationSchemas.symbol.
FailsValidation == last'.op = "get_stock_data" /\ ~SymbolPatternMatch(last'.data)

\* C29: a request that fails validation is answered 400 and no timestamp is
\* recorded in a rate-limit window.
C29_ValidationFirst ==
    [][FailsValidation =>
        /\ response'.status = 400
        /\ rate_limit_storage' = rate_limit_storage]_vars

\* A step of one of the three handlers that keep their answer in the cache,
\* and the key of its request.
CachedRoute ==
    last'.op \in {"get_market_indices", "get_trending_stocks", "get_stock_data"}

KeyOf ==
    CASE last'.op = "get_market_indices" -> "market_indices"
      [] last'.op = "get_trending_stocks" -> "trending_stocks"
      [] last'.op = "get_stock_data" -> StockKey(last'.data)

\* The cache holds an entry for the key that is less than 300 seconds old.
ValidEntry == KeyOf \in DOMAIN cache /\ now - cache[KeyOf][2] < 300

\* The handler was called: rate_limit did not answer in its place.
HandlerRan == response'.status # 429

\* The step has written the cache.
CacheWritten == cache' # cache

\* C30: a handler that finds a valid entry for its key returns the entry,
\* calls no quote and leaves the cache as it is; a quote is asked only when
\* there is no valid entry; the cache is written only with the result of a
\* successful fetch that the same step returns with status 200 (a list with
\* at least one quote), never along with an error response.
C30_CacheBeforeQuotes ==
    /\ [][(CachedRoute /\ ValidEntry) =>
            /\ quoted' = {}
            /\ ~CacheWritten
            /\ HandlerRan =>
                    /\ response'.status = 200
                    /\ response'.body = cache[KeyOf][1]]_vars
    /\ [][(CachedRoute /\ quoted' # {}) => ~ValidEntry /\ HandlerRan]_vars
    /\ [][(CachedRoute /\ CacheWritten) =>
            /\ ~ValidEntry
            /\ quoted' # {}
            /\ response'.status = 200
            /\ cache' = CacheSet(cache, KeyOf, response'.body, now)
            /\ last'.op # "get_stock_data" => last'.data # {}]_vars
    /\ [][(CachedRoute /\ HandlerRan /\ response'.status # 200) =>
            ~CacheWritten]_vars

\* The entry written at 0 has expired at 300: the request at 300 asked the
\* quote source, which failed, and the error was not cached.
C30_Witness ==
    /\ last.op \in {"get_market_indices", "get_trending_stocks", "get_stock_data"}
    /\ now = 300
    /\ got[1] \in DOMAIN cache
    /\ cache[got[1]][2] = 0
    /\ got[2] = None
    /\ quoted # {}
    /\ response.status \in {404, 500}

\* Equality and sum of amounts, by cross multiplication of the fractions.
SameAmount(a, b) == a.num * b.den = b.num * a.den
IsSum(c, a, b) == c.num * (a.den * b.den) = (a.num * b.den + b.num * a.den) * c.den
Times(n, a) == [num |-> n * a.num, den |-> a.den]

TxnPrice(op) == ToFloat(op.data.price).v

\* The step is an accepted buy on a holding the user has, or an accepted
\* sell of fewer shares than the holding has.
BuyOnHolding ==
    /\ Accepted(last', response')
    /\ TxnType(last') = "buy"
    /\ TxnKey(last') \in DOMAIN holdings

PartialSell ==
    /\ Accepted(last', response')
    /\ TxnType(last') = "sell"
    /\ TxnKey(last') \in DOMAIN holdings
    /\ holdings[TxnKey(last')].shares > TxnShares(last')

C32_OneWorker == WorkersAlive <= 1

\* The recorded timestamps of the client of the run in the class of its route.
Window == rate_limit_storage[LimitTypeOf(route.endpoint)][Identifier(route.req)]

Denied == IsLimitedRequest(last'.op, response') /\ response'.status = 429
Allowed == IsLimitedRequest(last'.op, response') /\ response'.status # 429

\* C33: a denied request adds no timestamp to the window of its identifier:
\* the window after it holds timestamps it held before, none of them the
\* time of the request unless an allowed request was recorded at that time;
\* an allowed request adds its time; a request that comes a window length or
\* more after the oldest recorded timestamp is allowed, whatever was denied
\* in between.
C33_DeniedNotRecorded ==
    /\ [][Denied =>
            /\ Len(Window') <= Len(Window)
            /\ Range(Window') \subseteq Range(Window)
            /\ Window' = CleanOld(Window, now, RouteLimit.window)]_vars
    /\ [][Allowed =>
            /\ Window' # <<>>
            /\ Window'[Len(Window')] = now
            /\ Len(Window') <= Len(Window) + 1]_vars
    /\ [][(IsLimitedRequest(last'.op, response')
            /\ (Window = <<>> \/ now - Window[1] >= RouteLimit.window)) =>
            response'.status # 429]_vars

\* Ten events were allowed at time 0; an event at time 9 was denied, and the
\* window holds the ten timestamps 0 and no 9.
C33_Witness ==
    /\ route.endpoint = "subscribe_prices"
    /\ last.op \in {"subscribe_prices", "unsubscribe_prices"}
    /\ response.status = 429
    /\ now = 9
    /\ Len(Window) = 10
    /\ \A i \in 1..10 : Window[i] = 0

\* The step is an unsubscribe_prices event answered with an error event.
UnsubscribeFailed ==
    /\ last'.op = "unsubscribe_prices"
    /\ Len(emitted') = 1
    /\ emitted'[1].event = "error"

\* C34: an unsubscribe_prices event answered with an error event leaves the
\* registry as it was.
C34_FailedUnsubscribeNoEffect ==
    [][UnsubscribeFailed => price_subscribers' = price_subscribers]_vars

\* The step is a sell of shares the user does not have, answered 400.
OverSellRejected ==
    /\ IsTransaction(last')
    /\ response'.status = 400
    /\ OverSelling(last')

\* C35: a transaction rejected with 400 for over-selling changes no holding
\* and adds no record to the transaction log.
C35_OverSellWritesNothing ==
    [][OverSellRejected => holdings' = holdings /\ txlog' = txlog]_vars

====
